---- MODULE Spec2Model ----
(***************************************************************************)
(* Model of the validation engine (lib/validators.ts), of the helper       *)
(* functions of lib/ai-helpers.ts (the local natural-language query        *)
(* filter, the column mapping, the suggestions, the call of the AI route)  *)
(* and of the data grid (components/DataGrid.tsx) of the                   *)
(* ai-resource-configurator.                                               *)
(*                                                                         *)
(* JavaScript strings are sequences of UTF-16 code units, so that trim,     *)
(* toLowerCase, includes, split and the regular expressions of the source  *)
(* are computed code unit by code unit.  A field value is a tagged         *)
(* record: undefined (absent), null, a string, or a number (the loaders    *)
(* parse CSV with dynamicTyping and spreadsheets with sheet_to_json, so    *)
(* numeric cells arrive as numbers; the model's are integers).  The        *)
(* result of Number() or parseInt() is NaN, or the exact quotient n / d of *)
(* two integers (d = 0 for the two infinities); it is the value of the     *)
(* double the program computes as long as n and d stay below 2^31.  The    *)
(* names of fields, entity kinds, severities and the other fixed tags of   *)
(* the program are kept as strings of this module.                         *)
(***************************************************************************)
EXTENDS Integers, Sequences, FiniteSets

VARIABLES
    pc,        \* "start" before the call, "done" after it returned or threw,
               \* "await fetch" / "await json" inside callOpenAI, "grid" for the DataGrid
    dataType,  \* 'clients' | 'workers' | 'tasks' (the entity kind of the call)
    data,      \* the record sequence handed to the call; the props of the DataGrid
    query,     \* the query string (processNaturalLanguageQuery)
    values,    \* the identifier column handed to validators.duplicates
    input,     \* the arguments of the other calls, a record named after the parameters
    grid,      \* the DataGrid component: its useState values and the identity of each record
    result     \* what the call returned

vars == <<pc, dataType, data, query, values, input, grid, result>>

----------------------------------------------------------------------------
(* JavaScript values *)

Undefined == [t |-> "undefined", s |-> <<>>, n |-> 0]
Null == [t |-> "null", s |-> <<>>, n |-> 0]
Str(chars) == [t |-> "string", s |-> chars, n |-> 0]
Num(k) == [t |-> "number", s |-> <<>>, n |-> k]

\* the result of a numeric conversion: NaN, or the quotient n / d in lowest terms
NaN == [nan |-> TRUE, n |-> 0, d |-> 1]
Finite(k) == [nan |-> FALSE, n |-> k, d |-> 1]

\* num / den for den > 0
Quotient(num, den) ==
    LET RECURSIVE Gcd(_, _)
        Gcd(a, b) == IF b = 0 THEN a ELSE Gcd(b, a % b)
        g == Gcd(IF num < 0 THEN -num ELSE num, den)
    IN  [nan |-> FALSE, n |-> num \div g, d |-> den \div g]

\* a < b on two results that are not NaN; an infinite result has d = 0 and
\* n = 1 or -1
Less(a, b) == IF a.d = 0 /\ b.d = 0 THEN a.n < b.n ELSE a.n * b.d < b.n * a.d

\* A JavaScript string is the sequence of its UTF-16 code units.  BasicLatin holds
\* the printable characters of Basic Latin, U+0020 to U+007E in this order, with a
\* space in the place of the grave accent U+0060
BasicLatin ==
    " !\"#$%&'()*+,-./0123456789:;<=>?@ABCDEFGHIJKLMNOPQRSTUVWXYZ[\\]^_ abcdefghijklmnopqrstuvwxyz{|}~"

\* CharCode[c] is the code unit of the character c of BasicLatin
CharCode ==
    [c \in {SubSeq(BasicLatin, k, k) : k \in 1..95} |->
        31 + CHOOSE k \in 1..95 : k # 65 /\ SubSeq(BasicLatin, k, k) = c]

\* the JavaScript string that a string literal of the source denotes
Text(literal) == [i \in 1..Len(literal) |-> CharCode[SubSeq(literal, i, i)]]

DigitSet == CharCode["0"]..CharCode["9"]

\* the letters a to z of a regular expression class
LowerSet == CharCode["a"]..CharCode["z"]

\* WhiteSpace and LineTerminator of ECMAScript (what trim removes and \s matches):
\* tab, line feed, vertical tab, form feed, carriage return, space, no-break
\* space, the other space separators of Unicode, the line and the paragraph
\* separator, and the byte order mark
WhiteSpace ==
    {\H0009, \H000A, \H000B, \H000C, \H000D, \H0020, \H00A0, \H1680, \H2028, \H2029,
     \H202F, \H205F, \H3000, \HFEFF} \cup (\H2000..\H200A)

\* !value
Truthy(v) ==
    CASE v.t = "string" -> Len(v.s) > 0
      [] v.t = "number" -> v.n # 0
      [] OTHER -> FALSE

RECURSIVE DigitsOf(_)
DigitsOf(k) ==
    IF k < 10 THEN <<CharCode["0"] + k>>
    ELSE DigitsOf(k \div 10) \o <<CharCode["0"] + (k % 10)>>

\* value.toString() / String(value), for a value that is not undefined or null
ToString(v) ==
    CASE v.t = "string" -> v.s
      [] v.t = "number" -> IF v.n < 0 THEN Text("-") \o DigitsOf(-v.n) ELSE DigitsOf(v.n)
      [] v.t = "null" -> Text("null")
      [] OTHER -> Text("undefined")

RECURSIVE TrimStart(_)
TrimStart(s) ==
    IF s # <<>> /\ Head(s) \in WhiteSpace THEN TrimStart(Tail(s)) ELSE s

RECURSIVE TrimEnd(_)
TrimEnd(s) ==
    IF s # <<>> /\ s[Len(s)] \in WhiteSpace THEN TrimEnd(SubSeq(s, 1, Len(s) - 1)) ELSE s

\* String.prototype.trim
Trim(s) == TrimEnd(TrimStart(s))

RECURSIVE CodePoints(_)
\* the code points of a string: a high surrogate followed by a low surrogate is
\* one code point, any other code unit is a code point by itself
CodePoints(s) ==
    IF s = <<>> THEN <<>>
    ELSE IF Len(s) > 1 /\ s[1] \in \HD800..\HDBFF /\ s[2] \in \HDC00..\HDFFF
    THEN <<\H10000 + (s[1] - \HD800) * \H400 + (s[2] - \HDC00)>>
         \o CodePoints(SubSeq(s, 3, Len(s)))
    ELSE <<s[1]>> \o CodePoints(Tail(s))

\* the code units of a code point
CodeUnits(c) ==
    IF c < \H10000 THEN <<c>>
    ELSE <<\HD800 + ((c - \H10000) \div \H400), \HDC00 + ((c - \H10000) % \H400)>>

\* c is in one of the ranges <<first, last>>
InRanges(c, ranges) == \E i \in 1..Len(ranges) : c \in ranges[i][1]..ranges[i][2]

\* The lower-case mappings of the Unicode Character Database (version 17.0): a
\* row <<first, last, step, delta>> maps each of the code points first,
\* first + step, ... up to last to the code point delta further.
LowerCaseRanges == <<
    <<\H0041, \H005A, 1, 32>>, <<\H00C0, \H00D6, 1, 32>>, <<\H00D8, \H00DE, 1, 32>>,
    <<\H0100, \H012E, 2, 1>>, <<\H0132, \H0136, 2, 1>>, <<\H0139, \H0147, 2, 1>>,
    <<\H014A, \H0176, 2, 1>>, <<\H0178, \H0178, 1, -121>>, <<\H0179, \H017D, 2, 1>>,
    <<\H0181, \H0181, 1, 210>>, <<\H0182, \H0184, 2, 1>>, <<\H0186, \H0186, 1, 206>>,
    <<\H0187, \H0187, 1, 1>>, <<\H0189, \H018A, 1, 205>>, <<\H018B, \H018B, 1, 1>>,
    <<\H018E, \H018E, 1, 79>>, <<\H018F, \H018F, 1, 202>>, <<\H0190, \H0190, 1, 203>>,
    <<\H0191, \H0191, 1, 1>>, <<\H0193, \H0193, 1, 205>>, <<\H0194, \H0194, 1, 207>>,
    <<\H0196, \H0196, 1, 211>>, <<\H0197, \H0197, 1, 209>>, <<\H0198, \H0198, 1, 1>>,
    <<\H019C, \H019C, 1, 211>>, <<\H019D, \H019D, 1, 213>>, <<\H019F, \H019F, 1, 214>>,
    <<\H01A0, \H01A4, 2, 1>>, <<\H01A6, \H01A6, 1, 218>>, <<\H01A7, \H01A7, 1, 1>>,
    <<\H01A9, \H01A9, 1, 218>>, <<\H01AC, \H01AC, 1, 1>>, <<\H01AE, \H01AE, 1, 218>>,
    <<\H01AF, \H01AF, 1, 1>>, <<\H01B1, \H01B2, 1, 217>>, <<\H01B3, \H01B5, 2, 1>>,
    <<\H01B7, \H01B7, 1, 219>>, <<\H01B8, \H01B8, 1, 1>>, <<\H01BC, \H01BC, 1, 1>>,
    <<\H01C4, \H01C4, 1, 2>>, <<\H01C5, \H01C5, 1, 1>>, <<\H01C7, \H01C7, 1, 2>>,
    <<\H01C8, \H01C8, 1, 1>>, <<\H01CA, \H01CA, 1, 2>>, <<\H01CB, \H01DB, 2, 1>>,
    <<\H01DE, \H01EE, 2, 1>>, <<\H01F1, \H01F1, 1, 2>>, <<\H01F2, \H01F4, 2, 1>>,
    <<\H01F6, \H01F6, 1, -97>>, <<\H01F7, \H01F7, 1, -56>>, <<\H01F8, \H021E, 2, 1>>,
    <<\H0220, \H0220, 1, -130>>, <<\H0222, \H0232, 2, 1>>, <<\H023A, \H023A, 1, 10795>>,
    <<\H023B, \H023B, 1, 1>>, <<\H023D, \H023D, 1, -163>>, <<\H023E, \H023E, 1, 10792>>,
    <<\H0241, \H0241, 1, 1>>, <<\H0243, \H0243, 1, -195>>, <<\H0244, \H0244, 1, 69>>,
    <<\H0245, \H0245, 1, 71>>, <<\H0246, \H024E, 2, 1>>, <<\H0370, \H0372, 2, 1>>,
    <<\H0376, \H0376, 1, 1>>, <<\H037F, \H037F, 1, 116>>, <<\H0386, \H0386, 1, 38>>,
    <<\H0388, \H038A, 1, 37>>, <<\H038C, \H038C, 1, 64>>, <<\H038E, \H038F, 1, 63>>,
    <<\H0391, \H03A1, 1, 32>>, <<\H03A3, \H03AB, 1, 32>>, <<\H03CF, \H03CF, 1, 8>>,
    <<\H03D8, \H03EE, 2, 1>>, <<\H03F4, \H03F4, 1, -60>>, <<\H03F7, \H03F7, 1, 1>>,
    <<\H03F9, \H03F9, 1, -7>>, <<\H03FA, \H03FA, 1, 1>>, <<\H03FD, \H03FF, 1, -130>>,
    <<\H0400, \H040F, 1, 80>>, <<\H0410, \H042F, 1, 32>>, <<\H0460, \H0480, 2, 1>>,
    <<\H048A, \H04BE, 2, 1>>, <<\H04C0, \H04C0, 1, 15>>, <<\H04C1, \H04CD, 2, 1>>,
    <<\H04D0, \H052E, 2, 1>>, <<\H0531, \H0556, 1, 48>>, <<\H10A0, \H10C5, 1, 7264>>,
    <<\H10C7, \H10C7, 1, 7264>>, <<\H10CD, \H10CD, 1, 7264>>, <<\H13A0, \H13EF, 1, 38864>>,
    <<\H13F0, \H13F5, 1, 8>>, <<\H1C89, \H1C89, 1, 1>>, <<\H1C90, \H1CBA, 1, -3008>>,
    <<\H1CBD, \H1CBF, 1, -3008>>, <<\H1E00, \H1E94, 2, 1>>, <<\H1E9E, \H1E9E, 1, -7615>>,
    <<\H1EA0, \H1EFE, 2, 1>>, <<\H1F08, \H1F0F, 1, -8>>, <<\H1F18, \H1F1D, 1, -8>>,
    <<\H1F28, \H1F2F, 1, -8>>, <<\H1F38, \H1F3F, 1, -8>>, <<\H1F48, \H1F4D, 1, -8>>,
    <<\H1F59, \H1F5F, 2, -8>>, <<\H1F68, \H1F6F, 1, -8>>, <<\H1F88, \H1F8F, 1, -8>>,
    <<\H1F98, \H1F9F, 1, -8>>, <<\H1FA8, \H1FAF, 1, -8>>, <<\H1FB8, \H1FB9, 1, -8>>,
    <<\H1FBA, \H1FBB, 1, -74>>, <<\H1FBC, \H1FBC, 1, -9>>, <<\H1FC8, \H1FCB, 1, -86>>,
    <<\H1FCC, \H1FCC, 1, -9>>, <<\H1FD8, \H1FD9, 1, -8>>, <<\H1FDA, \H1FDB, 1, -100>>,
    <<\H1FE8, \H1FE9, 1, -8>>, <<\H1FEA, \H1FEB, 1, -112>>, <<\H1FEC, \H1FEC, 1, -7>>,
    <<\H1FF8, \H1FF9, 1, -128>>, <<\H1FFA, \H1FFB, 1, -126>>, <<\H1FFC, \H1FFC, 1, -9>>,
    <<\H2126, \H2126, 1, -7517>>, <<\H212A, \H212A, 1, -8383>>, <<\H212B, \H212B, 1, -8262>>,
    <<\H2132, \H2132, 1, 28>>, <<\H2160, \H216F, 1, 16>>, <<\H2183, \H2183, 1, 1>>,
    <<\H24B6, \H24CF, 1, 26>>, <<\H2C00, \H2C2F, 1, 48>>, <<\H2C60, \H2C60, 1, 1>>,
    <<\H2C62, \H2C62, 1, -10743>>, <<\H2C63, \H2C63, 1, -3814>>, <<\H2C64, \H2C64, 1, -10727>>,
    <<\H2C67, \H2C6B, 2, 1>>, <<\H2C6D, \H2C6D, 1, -10780>>, <<\H2C6E, \H2C6E, 1, -10749>>,
    <<\H2C6F, \H2C6F, 1, -10783>>, <<\H2C70, \H2C70, 1, -10782>>, <<\H2C72, \H2C72, 1, 1>>,
    <<\H2C75, \H2C75, 1, 1>>, <<\H2C7E, \H2C7F, 1, -10815>>, <<\H2C80, \H2CE2, 2, 1>>,
    <<\H2CEB, \H2CED, 2, 1>>, <<\H2CF2, \H2CF2, 1, 1>>, <<\HA640, \HA66C, 2, 1>>,
    <<\HA680, \HA69A, 2, 1>>, <<\HA722, \HA72E, 2, 1>>, <<\HA732, \HA76E, 2, 1>>,
    <<\HA779, \HA77B, 2, 1>>, <<\HA77D, \HA77D, 1, -35332>>, <<\HA77E, \HA786, 2, 1>>,
    <<\HA78B, \HA78B, 1, 1>>, <<\HA78D, \HA78D, 1, -42280>>, <<\HA790, \HA792, 2, 1>>,
    <<\HA796, \HA7A8, 2, 1>>, <<\HA7AA, \HA7AA, 1, -42308>>, <<\HA7AB, \HA7AB, 1, -42319>>,
    <<\HA7AC, \HA7AC, 1, -42315>>, <<\HA7AD, \HA7AD, 1, -42305>>, <<\HA7AE, \HA7AE, 1, -42308>>,
    <<\HA7B0, \HA7B0, 1, -42258>>, <<\HA7B1, \HA7B1, 1, -42282>>, <<\HA7B2, \HA7B2, 1, -42261>>,
    <<\HA7B3, \HA7B3, 1, 928>>, <<\HA7B4, \HA7C2, 2, 1>>, <<\HA7C4, \HA7C4, 1, -48>>,
    <<\HA7C5, \HA7C5, 1, -42307>>, <<\HA7C6, \HA7C6, 1, -35384>>, <<\HA7C7, \HA7C9, 2, 1>>,
    <<\HA7CB, \HA7CB, 1, -42343>>, <<\HA7CC, \HA7DA, 2, 1>>, <<\HA7DC, \HA7DC, 1, -42561>>,
    <<\HA7F5, \HA7F5, 1, 1>>, <<\HFF21, \HFF3A, 1, 32>>, <<\H10400, \H10427, 1, 40>>,
    <<\H104B0, \H104D3, 1, 40>>, <<\H10570, \H1057A, 1, 39>>, <<\H1057C, \H1058A, 1, 39>>,
    <<\H1058C, \H10592, 1, 39>>, <<\H10594, \H10595, 1, 39>>, <<\H10C80, \H10CB2, 1, 64>>,
    <<\H10D50, \H10D65, 1, 32>>, <<\H118A0, \H118BF, 1, 32>>, <<\H16E40, \H16E5F, 1, 32>>,
    <<\H16EA0, \H16EB8, 1, 27>>, <<\H1E900, \H1E921, 1, 34>>
>>

\* The cased letters (property Cased) that are not case-ignorable, as ranges
\* <<first, last>>: a character with both properties is looked through.
CasedRanges == <<
    <<\H0041, \H005A>>, <<\H0061, \H007A>>, <<\H00AA, \H00AA>>, <<\H00B5, \H00B5>>, <<\H00BA, \H00BA>>,
    <<\H00C0, \H00D6>>, <<\H00D8, \H00F6>>, <<\H00F8, \H01BA>>, <<\H01BC, \H01BF>>, <<\H01C4, \H0293>>,
    <<\H0296, \H02AF>>, <<\H0370, \H0373>>, <<\H0376, \H0377>>, <<\H037B, \H037D>>, <<\H037F, \H037F>>,
    <<\H0386, \H0386>>, <<\H0388, \H038A>>, <<\H038C, \H038C>>, <<\H038E, \H03A1>>, <<\H03A3, \H03F5>>,
    <<\H03F7, \H0481>>, <<\H048A, \H052F>>, <<\H0531, \H0556>>, <<\H0560, \H0588>>, <<\H10A0, \H10C5>>,
    <<\H10C7, \H10C7>>, <<\H10CD, \H10CD>>, <<\H10D0, \H10FA>>, <<\H10FD, \H10FF>>, <<\H13A0, \H13F5>>,
    <<\H13F8, \H13FD>>, <<\H1C80, \H1C8A>>, <<\H1C90, \H1CBA>>, <<\H1CBD, \H1CBF>>, <<\H1D00, \H1D2B>>,
    <<\H1D6B, \H1D77>>, <<\H1D79, \H1D9A>>, <<\H1E00, \H1F15>>, <<\H1F18, \H1F1D>>, <<\H1F20, \H1F45>>,
    <<\H1F48, \H1F4D>>, <<\H1F50, \H1F57>>, <<\H1F59, \H1F59>>, <<\H1F5B, \H1F5B>>, <<\H1F5D, \H1F5D>>,
    <<\H1F5F, \H1F7D>>, <<\H1F80, \H1FB4>>, <<\H1FB6, \H1FBC>>, <<\H1FBE, \H1FBE>>, <<\H1FC2, \H1FC4>>,
    <<\H1FC6, \H1FCC>>, <<\H1FD0, \H1FD3>>, <<\H1FD6, \H1FDB>>, <<\H1FE0, \H1FEC>>, <<\H1FF2, \H1FF4>>,
    <<\H1FF6, \H1FFC>>, <<\H2102, \H2102>>, <<\H2107, \H2107>>, <<\H210A, \H2113>>, <<\H2115, \H2115>>,
    <<\H2119, \H211D>>, <<\H2124, \H2124>>, <<\H2126, \H2126>>, <<\H2128, \H2128>>, <<\H212A, \H212D>>,
    <<\H212F, \H2134>>, <<\H2139, \H2139>>, <<\H213C, \H213F>>, <<\H2145, \H2149>>, <<\H214E, \H214E>>,
    <<\H2160, \H217F>>, <<\H2183, \H2184>>, <<\H24B6, \H24E9>>, <<\H2C00, \H2C7B>>, <<\H2C7E, \H2CE4>>,
    <<\H2CEB, \H2CEE>>, <<\H2CF2, \H2CF3>>, <<\H2D00, \H2D25>>, <<\H2D27, \H2D27>>, <<\H2D2D, \H2D2D>>,
    <<\HA640, \HA66D>>, <<\HA680, \HA69B>>, <<\HA722, \HA76F>>, <<\HA771, \HA787>>, <<\HA78B, \HA78E>>,
    <<\HA790, \HA7DC>>, <<\HA7F5, \HA7F6>>, <<\HA7FA, \HA7FA>>, <<\HAB30, \HAB5A>>, <<\HAB60, \HAB68>>,
    <<\HAB70, \HABBF>>, <<\HFB00, \HFB06>>, <<\HFB13, \HFB17>>, <<\HFF21, \HFF3A>>, <<\HFF41, \HFF5A>>,
    <<\H10400, \H1044F>>, <<\H104B0, \H104D3>>, <<\H104D8, \H104FB>>, <<\H10570, \H1057A>>, <<\H1057C, \H1058A>>,
    <<\H1058C, \H10592>>, <<\H10594, \H10595>>, <<\H10597, \H105A1>>, <<\H105A3, \H105B1>>, <<\H105B3, \H105B9>>,
    <<\H105BB, \H105BC>>, <<\H10C80, \H10CB2>>, <<\H10CC0, \H10CF2>>, <<\H10D50, \H10D65>>, <<\H10D70, \H10D85>>,
    <<\H118A0, \H118DF>>, <<\H16E40, \H16E7F>>, <<\H16EA0, \H16EB8>>, <<\H16EBB, \H16ED3>>, <<\H1D400, \H1D454>>,
    <<\H1D456, \H1D49C>>, <<\H1D49E, \H1D49F>>, <<\H1D4A2, \H1D4A2>>, <<\H1D4A5, \H1D4A6>>, <<\H1D4A9, \H1D4AC>>,
    <<\H1D4AE, \H1D4B9>>, <<\H1D4BB, \H1D4BB>>, <<\H1D4BD, \H1D4C3>>, <<\H1D4C5, \H1D505>>, <<\H1D507, \H1D50A>>,
    <<\H1D50D, \H1D514>>, <<\H1D516, \H1D51C>>, <<\H1D51E, \H1D539>>, <<\H1D53B, \H1D53E>>, <<\H1D540, \H1D544>>,
    <<\H1D546, \H1D546>>, <<\H1D54A, \H1D550>>, <<\H1D552, \H1D6A5>>, <<\H1D6A8, \H1D6C0>>, <<\H1D6C2, \H1D6DA>>,
    <<\H1D6DC, \H1D6FA>>, <<\H1D6FC, \H1D714>>, <<\H1D716, \H1D734>>, <<\H1D736, \H1D74E>>, <<\H1D750, \H1D76E>>,
    <<\H1D770, \H1D788>>, <<\H1D78A, \H1D7A8>>, <<\H1D7AA, \H1D7C2>>, <<\H1D7C4, \H1D7CB>>, <<\H1DF00, \H1DF09>>,
    <<\H1DF0B, \H1DF1E>>, <<\H1DF25, \H1DF2A>>, <<\H1E900, \H1E943>>, <<\H1F130, \H1F149>>, <<\H1F150, \H1F169>>,
    <<\H1F170, \H1F189>>
>>

\* The characters a case mapping looks through (property Case_Ignorable)
CaseIgnorableRanges == <<
    <<\H0027, \H0027>>, <<\H002E, \H002E>>, <<\H003A, \H003A>>, <<\H005E, \H005E>>, <<\H0060, \H0060>>,
    <<\H00A8, \H00A8>>, <<\H00AD, \H00AD>>, <<\H00AF, \H00AF>>, <<\H00B4, \H00B4>>, <<\H00B7, \H00B8>>,
    <<\H02B0, \H036F>>, <<\H0374, \H0375>>, <<\H037A, \H037A>>, <<\H0384, \H0385>>, <<\H0387, \H0387>>,
    <<\H0483, \H0489>>, <<\H0559, \H0559>>, <<\H055F, \H055F>>, <<\H0591, \H05BD>>, <<\H05BF, \H05BF>>,
    <<\H05C1, \H05C2>>, <<\H05C4, \H05C5>>, <<\H05C7, \H05C7>>, <<\H05F4, \H05F4>>, <<\H0600, \H0605>>,
    <<\H0610, \H061A>>, <<\H061C, \H061C>>, <<\H0640, \H0640>>, <<\H064B, \H065F>>, <<\H0670, \H0670>>,
    <<\H06D6, \H06DD>>, <<\H06DF, \H06E8>>, <<\H06EA, \H06ED>>, <<\H070F, \H070F>>, <<\H0711, \H0711>>,
    <<\H0730, \H074A>>, <<\H07A6, \H07B0>>, <<\H07EB, \H07F5>>, <<\H07FA, \H07FA>>, <<\H07FD, \H07FD>>,
    <<\H0816, \H082D>>, <<\H0859, \H085B>>, <<\H0888, \H0888>>, <<\H0890, \H0891>>, <<\H0897, \H089F>>,
    <<\H08C9, \H0902>>, <<\H093A, \H093A>>, <<\H093C, \H093C>>, <<\H0941, \H0948>>, <<\H094D, \H094D>>,
    <<\H0951, \H0957>>, <<\H0962, \H0963>>, <<\H0971, \H0971>>, <<\H0981, \H0981>>, <<\H09BC, \H09BC>>,
    <<\H09C1, \H09C4>>, <<\H09CD, \H09CD>>, <<\H09E2, \H09E3>>, <<\H09FE, \H09FE>>, <<\H0A01, \H0A02>>,
    <<\H0A3C, \H0A3C>>, <<\H0A41, \H0A42>>, <<\H0A47, \H0A48>>, <<\H0A4B, \H0A4D>>, <<\H0A51, \H0A51>>,
    <<\H0A70, \H0A71>>, <<\H0A75, \H0A75>>, <<\H0A81, \H0A82>>, <<\H0ABC, \H0ABC>>, <<\H0AC1, \H0AC5>>,
    <<\H0AC7, \H0AC8>>, <<\H0ACD, \H0ACD>>, <<\H0AE2, \H0AE3>>, <<\H0AFA, \H0AFF>>, <<\H0B01, \H0B01>>,
    <<\H0B3C, \H0B3C>>, <<\H0B3F, \H0B3F>>, <<\H0B41, \H0B44>>, <<\H0B4D, \H0B4D>>, <<\H0B55, \H0B56>>,
    <<\H0B62, \H0B63>>, <<\H0B82, \H0B82>>, <<\H0BC0, \H0BC0>>, <<\H0BCD, \H0BCD>>, <<\H0C00, \H0C00>>,
    <<\H0C04, \H0C04>>, <<\H0C3C, \H0C3C>>, <<\H0C3E, \H0C40>>, <<\H0C46, \H0C48>>, <<\H0C4A, \H0C4D>>,
    <<\H0C55, \H0C56>>, <<\H0C62, \H0C63>>, <<\H0C81, \H0C81>>, <<\H0CBC, \H0CBC>>, <<\H0CBF, \H0CBF>>,
    <<\H0CC6, \H0CC6>>, <<\H0CCC, \H0CCD>>, <<\H0CE2, \H0CE3>>, <<\H0D00, \H0D01>>, <<\H0D3B, \H0D3C>>,
    <<\H0D41, \H0D44>>, <<\H0D4D, \H0D4D>>, <<\H0D62, \H0D63>>, <<\H0D81, \H0D81>>, <<\H0DCA, \H0DCA>>,
    <<\H0DD2, \H0DD4>>, <<\H0DD6, \H0DD6>>, <<\H0E31, \H0E31>>, <<\H0E34, \H0E3A>>, <<\H0E46, \H0E4E>>,
    <<\H0EB1, \H0EB1>>, <<\H0EB4, \H0EBC>>, <<\H0EC6, \H0EC6>>, <<\H0EC8, \H0ECE>>, <<\H0F18, \H0F19>>,
    <<\H0F35, \H0F35>>, <<\H0F37, \H0F37>>, <<\H0F39, \H0F39>>, <<\H0F71, \H0F7E>>, <<\H0F80, \H0F84>>,
    <<\H0F86, \H0F87>>, <<\H0F8D, \H0F97>>, <<\H0F99, \H0FBC>>, <<\H0FC6, \H0FC6>>, <<\H102D, \H1030>>,
    <<\H1032, \H1037>>, <<\H1039, \H103A>>, <<\H103D, \H103E>>, <<\H1058, \H1059>>, <<\H105E, \H1060>>,
    <<\H1071, \H1074>>, <<\H1082, \H1082>>, <<\H1085, \H1086>>, <<\H108D, \H108D>>, <<\H109D, \H109D>>,
    <<\H10FC, \H10FC>>, <<\H135D, \H135F>>, <<\H1712, \H1714>>, <<\H1732, \H1733>>, <<\H1752, \H1753>>,
    <<\H1772, \H1773>>, <<\H17B4, \H17B5>>, <<\H17B7, \H17BD>>, <<\H17C6, \H17C6>>, <<\H17C9, \H17D3>>,
    <<\H17D7, \H17D7>>, <<\H17DD, \H17DD>>, <<\H180B, \H180F>>, <<\H1843, \H1843>>, <<\H1885, \H1886>>,
    <<\H18A9, \H18A9>>, <<\H1920, \H1922>>, <<\H1927, \H1928>>, <<\H1932, \H1932>>, <<\H1939, \H193B>>,
    <<\H1A17, \H1A18>>, <<\H1A1B, \H1A1B>>, <<\H1A56, \H1A56>>, <<\H1A58, \H1A5E>>, <<\H1A60, \H1A60>>,
    <<\H1A62, \H1A62>>, <<\H1A65, \H1A6C>>, <<\H1A73, \H1A7C>>, <<\H1A7F, \H1A7F>>, <<\H1AA7, \H1AA7>>,
    <<\H1AB0, \H1ADD>>, <<\H1AE0, \H1AEB>>, <<\H1B00, \H1B03>>, <<\H1B34, \H1B34>>, <<\H1B36, \H1B3A>>,
    <<\H1B3C, \H1B3C>>, <<\H1B42, \H1B42>>, <<\H1B6B, \H1B73>>, <<\H1B80, \H1B81>>, <<\H1BA2, \H1BA5>>,
    <<\H1BA8, \H1BA9>>, <<\H1BAB, \H1BAD>>, <<\H1BE6, \H1BE6>>, <<\H1BE8, \H1BE9>>, <<\H1BED, \H1BED>>,
    <<\H1BEF, \H1BF1>>, <<\H1C2C, \H1C33>>, <<\H1C36, \H1C37>>, <<\H1C78, \H1C7D>>, <<\H1CD0, \H1CD2>>,
    <<\H1CD4, \H1CE0>>, <<\H1CE2, \H1CE8>>, <<\H1CED, \H1CED>>, <<\H1CF4, \H1CF4>>, <<\H1CF8, \H1CF9>>,
    <<\H1D2C, \H1D6A>>, <<\H1D78, \H1D78>>, <<\H1D9B, \H1DFF>>, <<\H1FBD, \H1FBD>>, <<\H1FBF, \H1FC1>>,
    <<\H1FCD, \H1FCF>>, <<\H1FDD, \H1FDF>>, <<\H1FED, \H1FEF>>, <<\H1FFD, \H1FFE>>, <<\H200B, \H200F>>,
    <<\H2018, \H2019>>, <<\H2024, \H2024>>, <<\H2027, \H2027>>, <<\H202A, \H202E>>, <<\H2060, \H2064>>,
    <<\H2066, \H206F>>, <<\H2071, \H2071>>, <<\H207F, \H207F>>, <<\H2090, \H209C>>, <<\H20D0, \H20F0>>,
    <<\H2C7C, \H2C7D>>, <<\H2CEF, \H2CF1>>, <<\H2D6F, \H2D6F>>, <<\H2D7F, \H2D7F>>, <<\H2DE0, \H2DFF>>,
    <<\H2E2F, \H2E2F>>, <<\H3005, \H3005>>, <<\H302A, \H302D>>, <<\H3031, \H3035>>, <<\H303B, \H303B>>,
    <<\H3099, \H309E>>, <<\H30FC, \H30FE>>, <<\HA015, \HA015>>, <<\HA4F8, \HA4FD>>, <<\HA60C, \HA60C>>,
    <<\HA66F, \HA672>>, <<\HA674, \HA67D>>, <<\HA67F, \HA67F>>, <<\HA69C, \HA69F>>, <<\HA6F0, \HA6F1>>,
    <<\HA700, \HA721>>, <<\HA770, \HA770>>, <<\HA788, \HA78A>>, <<\HA7F1, \HA7F4>>, <<\HA7F8, \HA7F9>>,
    <<\HA802, \HA802>>, <<\HA806, \HA806>>, <<\HA80B, \HA80B>>, <<\HA825, \HA826>>, <<\HA82C, \HA82C>>,
    <<\HA8C4, \HA8C5>>, <<\HA8E0, \HA8F1>>, <<\HA8FF, \HA8FF>>, <<\HA926, \HA92D>>, <<\HA947, \HA951>>,
    <<\HA980, \HA982>>, <<\HA9B3, \HA9B3>>, <<\HA9B6, \HA9B9>>, <<\HA9BC, \HA9BD>>, <<\HA9CF, \HA9CF>>,
    <<\HA9E5, \HA9E6>>, <<\HAA29, \HAA2E>>, <<\HAA31, \HAA32>>, <<\HAA35, \HAA36>>, <<\HAA43, \HAA43>>,
    <<\HAA4C, \HAA4C>>, <<\HAA70, \HAA70>>, <<\HAA7C, \HAA7C>>, <<\HAAB0, \HAAB0>>, <<\HAAB2, \HAAB4>>,
    <<\HAAB7, \HAAB8>>, <<\HAABE, \HAABF>>, <<\HAAC1, \HAAC1>>, <<\HAADD, \HAADD>>, <<\HAAEC, \HAAED>>,
    <<\HAAF3, \HAAF4>>, <<\HAAF6, \HAAF6>>, <<\HAB5B, \HAB5F>>, <<\HAB69, \HAB6B>>, <<\HABE5, \HABE5>>,
    <<\HABE8, \HABE8>>, <<\HABED, \HABED>>, <<\HFB1E, \HFB1E>>, <<\HFBB2, \HFBC2>>, <<\HFE00, \HFE0F>>,
    <<\HFE13, \HFE13>>, <<\HFE20, \HFE2F>>, <<\HFE52, \HFE52>>, <<\HFE55, \HFE55>>, <<\HFEFF, \HFEFF>>,
    <<\HFF07, \HFF07>>, <<\HFF0E, \HFF0E>>, <<\HFF1A, \HFF1A>>, <<\HFF3E, \HFF3E>>, <<\HFF40, \HFF40>>,
    <<\HFF70, \HFF70>>, <<\HFF9E, \HFF9F>>, <<\HFFE3, \HFFE3>>, <<\HFFF9, \HFFFB>>, <<\H101FD, \H101FD>>,
    <<\H102E0, \H102E0>>, <<\H10376, \H1037A>>, <<\H10780, \H10785>>, <<\H10787, \H107B0>>, <<\H107B2, \H107BA>>,
    <<\H10A01, \H10A03>>, <<\H10A05, \H10A06>>, <<\H10A0C, \H10A0F>>, <<\H10A38, \H10A3A>>, <<\H10A3F, \H10A3F>>,
    <<\H10AE5, \H10AE6>>, <<\H10D24, \H10D27>>, <<\H10D4E, \H10D4E>>, <<\H10D69, \H10D6D>>, <<\H10D6F, \H10D6F>>,
    <<\H10EAB, \H10EAC>>, <<\H10EC5, \H10EC5>>, <<\H10EFA, \H10EFF>>, <<\H10F46, \H10F50>>, <<\H10F82, \H10F85>>,
    <<\H11001, \H11001>>, <<\H11038, \H11046>>, <<\H11070, \H11070>>, <<\H11073, \H11074>>, <<\H1107F, \H11081>>,
    <<\H110B3, \H110B6>>, <<\H110B9, \H110BA>>, <<\H110BD, \H110BD>>, <<\H110C2, \H110C2>>, <<\H110CD, \H110CD>>,
    <<\H11100, \H11102>>, <<\H11127, \H1112B>>, <<\H1112D, \H11134>>, <<\H11173, \H11173>>, <<\H11180, \H11181>>,
    <<\H111B6, \H111BE>>, <<\H111C9, \H111CC>>, <<\H111CF, \H111CF>>, <<\H1122F, \H11231>>, <<\H11234, \H11234>>,
    <<\H11236, \H11237>>, <<\H1123E, \H1123E>>, <<\H11241, \H11241>>, <<\H112DF, \H112DF>>, <<\H112E3, \H112EA>>,
    <<\H11300, \H11301>>, <<\H1133B, \H1133C>>, <<\H11340, \H11340>>, <<\H11366, \H1136C>>, <<\H11370, \H11374>>,
    <<\H113BB, \H113C0>>, <<\H113CE, \H113CE>>, <<\H113D0, \H113D0>>, <<\H113D2, \H113D2>>, <<\H113E1, \H113E2>>,
    <<\H11438, \H1143F>>, <<\H11442, \H11444>>, <<\H11446, \H11446>>, <<\H1145E, \H1145E>>, <<\H114B3, \H114B8>>,
    <<\H114BA, \H114BA>>, <<\H114BF, \H114C0>>, <<\H114C2, \H114C3>>, <<\H115B2, \H115B5>>, <<\H115BC, \H115BD>>,
    <<\H115BF, \H115C0>>, <<\H115DC, \H115DD>>, <<\H11633, \H1163A>>, <<\H1163D, \H1163D>>, <<\H1163F, \H11640>>,
    <<\H116AB, \H116AB>>, <<\H116AD, \H116AD>>, <<\H116B0, \H116B5>>, <<\H116B7, \H116B7>>, <<\H1171D, \H1171D>>,
    <<\H1171F, \H1171F>>, <<\H11722, \H11725>>, <<\H11727, \H1172B>>, <<\H1182F, \H11837>>, <<\H11839, \H1183A>>,
    <<\H1193B, \H1193C>>, <<\H1193E, \H1193E>>, <<\H11943, \H11943>>, <<\H119D4, \H119D7>>, <<\H119DA, \H119DB>>,
    <<\H119E0, \H119E0>>, <<\H11A01, \H11A0A>>, <<\H11A33, \H11A38>>, <<\H11A3B, \H11A3E>>, <<\H11A47, \H11A47>>,
    <<\H11A51, \H11A56>>, <<\H11A59, \H11A5B>>, <<\H11A8A, \H11A96>>, <<\H11A98, \H11A99>>, <<\H11B60, \H11B60>>,
    <<\H11B62, \H11B64>>, <<\H11B66, \H11B66>>, <<\H11C30, \H11C36>>, <<\H11C38, \H11C3D>>, <<\H11C3F, \H11C3F>>,
    <<\H11C92, \H11CA7>>, <<\H11CAA, \H11CB0>>, <<\H11CB2, \H11CB3>>, <<\H11CB5, \H11CB6>>, <<\H11D31, \H11D36>>,
    <<\H11D3A, \H11D3A>>, <<\H11D3C, \H11D3D>>, <<\H11D3F, \H11D45>>, <<\H11D47, \H11D47>>, <<\H11D90, \H11D91>>,
    <<\H11D95, \H11D95>>, <<\H11D97, \H11D97>>, <<\H11DD9, \H11DD9>>, <<\H11EF3, \H11EF4>>, <<\H11F00, \H11F01>>,
    <<\H11F36, \H11F3A>>, <<\H11F40, \H11F40>>, <<\H11F42, \H11F42>>, <<\H11F5A, \H11F5A>>, <<\H13430, \H13440>>,
    <<\H13447, \H13455>>, <<\H1611E, \H16129>>, <<\H1612D, \H1612F>>, <<\H16AF0, \H16AF4>>, <<\H16B30, \H16B36>>,
    <<\H16B40, \H16B43>>, <<\H16D40, \H16D42>>, <<\H16D6B, \H16D6C>>, <<\H16F4F, \H16F4F>>, <<\H16F8F, \H16F9F>>,
    <<\H16FE0, \H16FE1>>, <<\H16FE3, \H16FE4>>, <<\H16FF2, \H16FF3>>, <<\H1AFF0, \H1AFF3>>, <<\H1AFF5, \H1AFFB>>,
    <<\H1AFFD, \H1AFFE>>, <<\H1BC9D, \H1BC9E>>, <<\H1BCA0, \H1BCA3>>, <<\H1CF00, \H1CF2D>>, <<\H1CF30, \H1CF46>>,
    <<\H1D167, \H1D169>>, <<\H1D173, \H1D182>>, <<\H1D185, \H1D18B>>, <<\H1D1AA, \H1D1AD>>, <<\H1D242, \H1D244>>,
    <<\H1DA00, \H1DA36>>, <<\H1DA3B, \H1DA6C>>, <<\H1DA75, \H1DA75>>, <<\H1DA84, \H1DA84>>, <<\H1DA9B, \H1DA9F>>,
    <<\H1DAA1, \H1DAAF>>, <<\H1E000, \H1E006>>, <<\H1E008, \H1E018>>, <<\H1E01B, \H1E021>>, <<\H1E023, \H1E024>>,
    <<\H1E026, \H1E02A>>, <<\H1E030, \H1E06D>>, <<\H1E08F, \H1E08F>>, <<\H1E130, \H1E13D>>, <<\H1E2AE, \H1E2AE>>,
    <<\H1E2EC, \H1E2EF>>, <<\H1E4EB, \H1E4EF>>, <<\H1E5EE, \H1E5EF>>, <<\H1E6E3, \H1E6E3>>, <<\H1E6E6, \H1E6E6>>,
    <<\H1E6EE, \H1E6EF>>, <<\H1E6F5, \H1E6F5>>, <<\H1E6FF, \H1E6FF>>, <<\H1E8D0, \H1E8D6>>, <<\H1E944, \H1E94B>>,
    <<\H1F3FB, \H1F3FF>>, <<\HE0001, \HE0001>>, <<\HE0020, \HE007F>>, <<\HE0100, \HE01EF>>
>>

\* toLowerCase of the code point c, as a string: the letters of Basic Latin, the
\* capital I with dot above (the one code point with a longer lower case), or the
\* row of the code point
ToLowerChar(c) ==
    IF c < \H0080 THEN <<IF c \in CharCode["A"]..CharCode["Z"] THEN c + 32 ELSE c>>
    ELSE IF c = \H0130 THEN <<\H0069, \H0307>>
    ELSE LET rows == {i \in 1..Len(LowerCaseRanges) :
                          /\ c \in LowerCaseRanges[i][1]..LowerCaseRanges[i][2]
                          /\ (c - LowerCaseRanges[i][1]) % LowerCaseRanges[i][3] = 0}
         IN  CodeUnits(IF rows = {} THEN c
                       ELSE c + LowerCaseRanges[CHOOSE i \in rows : TRUE][4])

\* the condition Final_Sigma on the code point at position i: a cased letter before
\* it and none after it, looking through the ignorable characters
FinalSigma(points, i) ==
    /\ \E j \in 1..(i - 1) :
          /\ InRanges(points[j], CasedRanges)
          /\ \A k \in (j + 1)..(i - 1) : InRanges(points[k], CaseIgnorableRanges)
    /\ ~\E j \in (i + 1)..Len(points) :
          /\ InRanges(points[j], CasedRanges)
          /\ \A k \in (i + 1)..(j - 1) : InRanges(points[k], CaseIgnorableRanges)

\* String.prototype.toLowerCase: code point by code point, but for a capital sigma
\* that ends a word
ToLowerCase(s) ==
    LET points == CodePoints(s)
        RECURSIVE From(_)
        From(i) ==
            IF i > Len(points) THEN <<>>
            ELSE (IF points[i] = \H03A3 /\ FinalSigma(points, i) THEN <<\H03C2>>
                  ELSE ToLowerChar(points[i]))
                 \o From(i + 1)
    IN  From(1)

\* String.prototype.includes
Includes(s, sub) ==
    \E i \in 0..(Len(s) - Len(sub)) : SubSeq(s, i + 1, i + Len(sub)) = sub

\* the value of a digit, in either case of the letters a to f, and -1 for any
\* other character
HexValue(c) ==
    IF c \in DigitSet THEN c - CharCode["0"]
    ELSE IF c \in CharCode["a"]..CharCode["f"] THEN 10 + c - CharCode["a"]
    ELSE IF c \in CharCode["A"]..CharCode["F"] THEN 10 + c - CharCode["A"]
    ELSE -1

RECURSIVE RadixToNat(_, _)
\* the value of the digits s in the radix 2, 8, 10 or 16
RadixToNat(s, radix) ==
    IF s = <<>> THEN 0
    ELSE radix * RadixToNat(SubSeq(s, 1, Len(s) - 1), radix) + HexValue(s[Len(s)])

\* the value of decimal digits
DigitsToNat(s) == RadixToNat(s, 10)

AllDigits(s) == s # <<>> /\ \A i \in 1..Len(s) : s[i] \in DigitSet

\* s is one or more digits of the radix
AllRadixDigits(s, radix) ==
    s # <<>> /\ \A i \in 1..Len(s) : HexValue(s[i]) \in 0..(radix - 1)

RECURSIVE DigitPrefix(_)
DigitPrefix(s) ==
    IF s # <<>> /\ Head(s) \in DigitSet THEN <<Head(s)>> \o DigitPrefix(Tail(s)) ELSE <<>>

\* StrUnsignedDecimalLiteral without Infinity: digits with an optional fraction, or
\* a fraction alone, then an optional exponent; NaN when t is not of that form
UnsignedDecimal(t) ==
    LET RECURSIVE Pow10(_)
        Pow10(k) == IF k = 0 THEN 1 ELSE 10 * Pow10(k - 1)
        whole == DigitPrefix(t)
        afterWhole == SubSeq(t, Len(whole) + 1, Len(t))
        dot == afterWhole # <<>> /\ Head(afterWhole) = CharCode["."]
        fraction == IF dot THEN DigitPrefix(Tail(afterWhole)) ELSE <<>>
        afterFraction == IF dot THEN SubSeq(afterWhole, Len(fraction) + 2, Len(afterWhole))
                         ELSE afterWhole
        exponent == afterFraction # <<>> /\ Head(afterFraction) \in {CharCode["e"], CharCode["E"]}
        signed == exponent /\ Len(afterFraction) > 1 /\ afterFraction[2] \in {CharCode["+"], CharCode["-"]}
        exponentDigits == IF exponent
                          THEN SubSeq(afterFraction, IF signed THEN 3 ELSE 2, Len(afterFraction))
                          ELSE <<>>
        mantissa == DigitsToNat(whole \o fraction)
        power == (IF ~exponent THEN 0
                  ELSE IF signed /\ afterFraction[2] = CharCode["-"] THEN -DigitsToNat(exponentDigits)
                  ELSE DigitsToNat(exponentDigits)) - Len(fraction)
    IN  IF whole \o fraction = <<>> THEN NaN
        ELSE IF exponent /\ ~AllDigits(exponentDigits) THEN NaN
        ELSE IF ~exponent /\ afterFraction # <<>> THEN NaN
        ELSE IF mantissa = 0 THEN Finite(0)
        ELSE IF power >= 0 THEN Finite(mantissa * Pow10(power))
        ELSE Quotient(mantissa, Pow10(-power))

\* The string-to-number conversion of Number() (StringToNumber of ECMAScript): the
\* trimmed text is empty (0), a hexadecimal, octal or binary integer without sign,
\* or an optionally signed decimal literal or Infinity; anything else is NaN.
StringToNumber(s) ==
    LET t == Trim(s)
        prefixed == Len(t) > 1 /\ t[1] = CharCode["0"]
        digits == SubSeq(t, 3, Len(t))
        unsigned == IF t # <<>> /\ Head(t) \in {CharCode["+"], CharCode["-"]} THEN Tail(t) ELSE t
        Infinity == [nan |-> FALSE, n |-> 1, d |-> 0]
        magnitude == IF unsigned = Text("Infinity") THEN Infinity ELSE UnsignedDecimal(unsigned)
        Negate(x) == IF x.nan THEN x ELSE [x EXCEPT !.n = -x.n]
    IN  IF t = <<>> THEN Finite(0)
        ELSE IF prefixed /\ t[2] \in {CharCode["x"], CharCode["X"]}
             THEN IF AllRadixDigits(digits, 16) THEN Finite(RadixToNat(digits, 16)) ELSE NaN
        ELSE IF prefixed /\ t[2] \in {CharCode["o"], CharCode["O"]}
             THEN IF AllRadixDigits(digits, 8) THEN Finite(RadixToNat(digits, 8)) ELSE NaN
        ELSE IF prefixed /\ t[2] \in {CharCode["b"], CharCode["B"]}
             THEN IF AllRadixDigits(digits, 2) THEN Finite(RadixToNat(digits, 2)) ELSE NaN
        ELSE IF Head(t) = CharCode["-"] THEN Negate(magnitude)
        ELSE magnitude

\* Number(value)
ToNumber(v) ==
    CASE v.t = "number" -> Finite(v.n)
      [] v.t = "string" -> StringToNumber(v.s)
      [] v.t = "null" -> Finite(0)
      [] OTHER -> NaN

\* isNaN(Number(value))
IsNaN(x) == x.nan

\* parseInt(string) without a radix: leading white space skipped, optional sign,
\* then after 0x or 0X the longest run of hexadecimal digits, otherwise the
\* longest run of decimal digits; NaN when there is no digit.
ParseIntString(s) ==
    LET RECURSIVE HexPrefix(_)
        HexPrefix(h) ==
            IF h # <<>> /\ HexValue(Head(h)) >= 0
            THEN <<Head(h)>> \o HexPrefix(Tail(h)) ELSE <<>>
        t == TrimStart(s)
        neg == t # <<>> /\ Head(t) = CharCode["-"]
        u == IF t # <<>> /\ Head(t) \in {CharCode["+"], CharCode["-"]} THEN Tail(t) ELSE t
        hex == Len(u) > 1 /\ u[1] = CharCode["0"] /\ u[2] \in {CharCode["x"], CharCode["X"]}
        d == IF hex THEN HexPrefix(SubSeq(u, 3, Len(u))) ELSE DigitPrefix(u)
        k == IF hex THEN RadixToNat(d, 16) ELSE DigitsToNat(d)
    IN IF d = <<>> THEN NaN
       ELSE Finite(IF neg THEN -k ELSE k)

\* parseInt(value): the argument is converted to a string first
ParseInt(v) == ParseIntString(ToString(v))

----------------------------------------------------------------------------
(* Regular expressions *)
(* A pattern is a tree; Ends(node, s, p) lists, in the order a backtracking   *)
(* matcher tries them (greedy first), the positions at which a match of node  *)
(* that starts after the first p characters of s can end.                     *)

Lit(chars) == [k |-> "lit", s |-> chars]
Cls(chars) == [k |-> "cls", cs |-> chars, neg |-> FALSE]
NotCls(chars) == [k |-> "cls", cs |-> chars, neg |-> TRUE]
Cat(nodes) == [k |-> "cat", xs |-> nodes]
Alt(nodes) == [k |-> "alt", xs |-> nodes]
Star(node) == [k |-> "star", x |-> node]
Opt(node) == [k |-> "opt", x |-> node]
Plus(node) == Cat(<<node, Star(node)>>)

RECURSIVE Ends(_, _, _)
RECURSIVE EndsCat(_, _, _)
RECURSIVE EndsAlt(_, _, _)
RECURSIVE EndsStarAfter(_, _, _, _)
RECURSIVE EndsCatAfter(_, _, _)

\* the rest of a concatenation, continued from each end of its first part
EndsCatAfter(ends, nodes, s) ==
    IF ends = <<>> THEN <<>>
    ELSE EndsCat(nodes, s, Head(ends)) \o EndsCatAfter(Tail(ends), nodes, s)

EndsCat(nodes, s, p) ==
    IF nodes = <<>> THEN <<p>>
    ELSE EndsCatAfter(Ends(Head(nodes), s, p), Tail(nodes), s)

EndsAlt(nodes, s, p) ==
    IF nodes = <<>> THEN <<>>
    ELSE Ends(Head(nodes), s, p) \o EndsAlt(Tail(nodes), s, p)

\* further iterations of a starred node from each end of one iteration
EndsStarAfter(ends, node, s, p) ==
    IF ends = <<>> THEN <<>>
    ELSE (IF Head(ends) > p THEN Ends(Star(node), s, Head(ends)) ELSE <<>>)
         \o EndsStarAfter(Tail(ends), node, s, p)

Ends(node, s, p) ==
    CASE node.k = "lit" ->
            IF p + Len(node.s) <= Len(s) /\ SubSeq(s, p + 1, p + Len(node.s)) = node.s
            THEN <<p + Len(node.s)>> ELSE <<>>
      [] node.k = "cls" ->
            IF p < Len(s) /\ ((s[p + 1] \in node.cs) # node.neg) THEN <<p + 1>> ELSE <<>>
      [] node.k = "cat" -> EndsCat(node.xs, s, p)
      [] node.k = "alt" -> EndsAlt(node.xs, s, p)
      [] node.k = "opt" -> Ends(node.x, s, p) \o <<p>>
      [] node.k = "star" -> EndsStarAfter(Ends(node.x, s, p), node.x, s, p) \o <<p>>

NoMatch == [found |-> FALSE, group |-> <<>>]

RECURSIVE MatchAt(_, _, _, _)
\* the first way to match re.group after one of the ends of re.pre
MatchAt(re, s, preEnds, i) ==
    IF i > Len(preEnds) THEN NoMatch
    ELSE LET groupEnds == Ends(re.group, s, preEnds[i]) IN
         IF groupEnds # <<>>
         THEN [found |-> TRUE, group |-> SubSeq(s, preEnds[i] + 1, Head(groupEnds))]
         ELSE MatchAt(re, s, preEnds, i + 1)

RECURSIVE MatchFrom(_, _, _)
MatchFrom(re, s, start) ==
    IF start > Len(s) THEN NoMatch
    ELSE LET m == MatchAt(re, s, Ends(re.pre, s, start), 1) IN
         IF m.found THEN m ELSE MatchFrom(re, s, start + 1)

\* s.match(re) for a pattern made of a prefix, one capturing group and a suffix
\* that can match the empty string: null, or the text of the group of the
\* leftmost match
Match(re, s) == MatchFrom(re, s, 0)

\* re.test(s) for a pattern anchored at both ends
Test(node, s) == \E i \in 1..Len(Ends(node, s, 0)) : Ends(node, s, 0)[i] = Len(s)

----------------------------------------------------------------------------
(* lib/validators.ts *)

\* the object literal of an error or a warning; fieldName, message and hint are
\* JavaScript strings
Issue(rowIndex, fieldName, message, sev, hint) ==
    [row |-> rowIndex, column |-> fieldName, error |-> message,
     severity |-> sev, suggestion |-> hint]

\* validators.required: <<>> stands for null
validators_required(value, fieldName, rowIndex) ==
    IF ~Truthy(value) \/ Trim(ToString(value)) = <<>>
    THEN <<Issue(rowIndex, fieldName, fieldName \o Text(" is required"), "error",
                 Text("Add a value for ") \o fieldName)>>
    ELSE <<>>

RECURSIVE DuplicatesFrom(_, _, _, _)
\* the forEach of validators.duplicates from position i on, seen being the keys set so far
DuplicatesFrom(vals, fieldName, i, seen) ==
    IF i > Len(vals) THEN <<>>
    ELSE LET value == vals[i] IN
         IF Truthy(value) /\ Trim(ToString(value)) # <<>>
         THEN LET key == ToLowerCase(ToString(value)) IN
              IF key \in seen
              THEN <<Issue(i - 1, fieldName,
                           Text("Duplicate ") \o fieldName \o Text(": ") \o ToString(value),
                           "error",
                           Text("Make ") \o fieldName \o Text(" unique or remove duplicate"))>>
                   \o DuplicatesFrom(vals, fieldName, i + 1, seen)
              ELSE DuplicatesFrom(vals, fieldName, i + 1, seen \cup {key})
         ELSE DuplicatesFrom(vals, fieldName, i + 1, seen)

\* validators.duplicates
validators_duplicates(vals, fieldName) == DuplicatesFrom(vals, fieldName, 1, {})

\* /^[^\s@]+@[^\s@]+\.[^\s@]+$/
emailRegex ==
    LET Part == Plus(NotCls(WhiteSpace \cup {CharCode["@"]}))
    IN  Cat(<<Part, Lit(Text("@")), Part, Lit(Text(".")), Part>>)

\* text is in the Date Time String Format of ECMAScript, with a year of four digits
\* and legal values
IsDateTimeString(text) ==
    LET
        \* the characters from..to of s are decimal digits
        DigitsAt(s, from, to) == to <= Len(s) /\ \A i \in from..to : s[i] \in DigitSet

        DaysInMonth(year, month) ==
            IF month = 2
            THEN IF year % 4 = 0 /\ (year % 100 # 0 \/ year % 400 = 0) THEN 29 ELSE 28
            ELSE IF month \in {4, 6, 9, 11} THEN 30 ELSE 31

        \* the date-only forms YYYY, YYYY-MM and YYYY-MM-DD of the Date Time String Format
        IsDateOnly(s) ==
            /\ Len(s) \in {4, 7, 10}
            /\ DigitsAt(s, 1, 4)
            /\ Len(s) >= 7 =>
                  /\ s[5] = CharCode["-"] /\ DigitsAt(s, 6, 7)
                  /\ DigitsToNat(SubSeq(s, 6, 7)) \in 1..12
            /\ Len(s) = 10 =>
                  /\ s[8] = CharCode["-"] /\ DigitsAt(s, 9, 10)
                  /\ DigitsToNat(SubSeq(s, 9, 10))
                         \in 1..DaysInMonth(DigitsToNat(SubSeq(s, 1, 4)), DigitsToNat(SubSeq(s, 6, 7)))

        \* the time forms HH:mm, HH:mm:ss and HH:mm:ss.sss
        IsTimeForm(s) ==
            /\ Len(s) \in {5, 8, 12}
            /\ DigitsAt(s, 1, 2) /\ s[3] = CharCode[":"] /\ DigitsAt(s, 4, 5)
            /\ DigitsToNat(SubSeq(s, 4, 5)) <= 59
            /\ Len(s) >= 8 =>
                  s[6] = CharCode[":"] /\ DigitsAt(s, 7, 8) /\ DigitsToNat(SubSeq(s, 7, 8)) <= 59
            /\ Len(s) = 12 => s[9] = CharCode["."] /\ DigitsAt(s, 10, 12)
            /\ \/ DigitsToNat(SubSeq(s, 1, 2)) <= 23
               \/ /\ SubSeq(s, 1, 2) = Text("24")
                  /\ \A i \in 4..Len(s) : s[i] \in {CharCode["0"], CharCode[":"], CharCode["."]}

        \* the UTC offset: absent, Z, or a sign and HH:mm
        IsOffset(s) ==
            \/ s = <<>>
            \/ s = Text("Z")
            \/ /\ Len(s) = 6 /\ s[1] \in {CharCode["+"], CharCode["-"]}
               /\ DigitsAt(s, 2, 3) /\ s[4] = CharCode[":"] /\ DigitsAt(s, 5, 6)
               /\ DigitsToNat(SubSeq(s, 2, 3)) <= 23 /\ DigitsToNat(SubSeq(s, 5, 6)) <= 59
    IN  \/ IsDateOnly(text)
        \/ \E i \in 1..Len(text) : \E j \in i..Len(text) :
              /\ text[i] = CharCode["T"]
              /\ IsDateOnly(SubSeq(text, 1, i - 1))
              /\ IsTimeForm(SubSeq(text, i + 1, j))
              /\ IsOffset(SubSeq(text, j + 1, Len(text)))

\* isNaN(Date.parse(s)).  A text in the Date Time String Format is a date; a text
\* without a digit is none; on any other text ECMAScript leaves the answer to the
\* host, and hostRejects is that answer (TRUE when the host reads no date).
DateParseIsNaN(s, hostRejects) ==
    IF IsDateTimeString(s) THEN FALSE
    ELSE IF \A i \in 1..Len(s) : s[i] \notin DigitSet THEN TRUE
    ELSE hostRejects

\* the three cases of the switch of validators.dataType: the test that fails
DataTypeFails(value, expectedType, hostRejects) ==
    CASE expectedType = "number" -> IsNaN(ToNumber(value))
      [] expectedType = "email" -> ~Test(emailRegex, ToString(value))
      [] expectedType = "date" -> DateParseIsNaN(ToString(value), hostRejects)
      [] OTHER -> FALSE

\* the error of each case
DataTypeIssue(expectedType, fieldName, rowIndex) ==
    CASE expectedType = "number" ->
             Issue(rowIndex, fieldName, fieldName \o Text(" must be a number"), "error",
                   Text("Enter a valid number for ") \o fieldName)
      [] expectedType = "email" ->
             Issue(rowIndex, fieldName, fieldName \o Text(" must be a valid email"), "error",
                   Text("Enter a valid email format (e.g., user@domain.com)"))
      [] expectedType = "date" ->
             Issue(rowIndex, fieldName, fieldName \o Text(" must be a valid date"), "error",
                   Text("Enter a valid date format (YYYY-MM-DD)"))

\* validators.dataType without its first line, if (!value) return null
validators_dataType_NoGuard(value, expectedType, fieldName, rowIndex, hostRejects) ==
    IF DataTypeFails(value, expectedType, hostRejects)
    THEN <<DataTypeIssue(expectedType, fieldName, rowIndex)>>
    ELSE <<>>

\* validators.dataType; hostRejects is what the host's Date.parse makes of a text
\* the standard does not decide (read by the case 'date' only)
validators_dataType(value, expectedType, fieldName, rowIndex, hostRejects) ==
    IF ~Truthy(value) THEN <<>>
    ELSE IF DataTypeFails(value, expectedType, hostRejects)
    THEN <<DataTypeIssue(expectedType, fieldName, rowIndex)>>
    ELSE <<>>

\* validators.range
validators_range(value, min, max, fieldName, rowIndex) ==
    LET numValue == ToNumber(value) IN
    IF IsNaN(numValue) THEN <<>>
    ELSE IF Less(numValue, Finite(min)) \/ Less(Finite(max), numValue)
    THEN <<Issue(rowIndex, fieldName,
                 fieldName \o Text(" must be between ") \o ToString(Num(min))
                     \o Text(" and ") \o ToString(Num(max)),
                 "warning",
                 Text("Adjust ") \o fieldName \o Text(" to be within range ")
                     \o ToString(Num(min)) \o Text("-") \o ToString(Num(max)))>>
    ELSE <<>>

RangeMin == 1
RangeMax == 10

RECURSIVE Filter_Reversed(_, _)
Filter_Reversed(issues, sev) ==
    IF issues = <<>> THEN <<>>
    ELSE IF Head(issues).severity = sev
         THEN Filter_Reversed(Tail(issues), sev) \o <<Head(issues)>>
         ELSE Filter_Reversed(Tail(issues), sev)

RECURSIVE Filter(_, _)
\* Array.prototype.filter by severity
Filter(issues, sev) ==
    IF issues = <<>> THEN <<>>
    ELSE IF Head(issues).severity = sev
         THEN <<Head(issues)>> \o Filter(Tail(issues), sev)
         ELSE Filter(Tail(issues), sev)

\* a report whose isValid looks at the length of the whole issue list
ValidationResult_AnyIssue(issues, totalRows) ==
    [isValid |-> Len(issues) = 0,
     errors |-> Filter(issues, "error"),
     warnings |-> Filter(issues, "warning"),
     summary |-> [totalRows |-> totalRows,
                  errorCount |-> Len(Filter(issues, "error")),
                  warningCount |-> Len(Filter(issues, "warning"))]]

\* the object literal the three validate functions return
ValidationResult(issues, totalRows) ==
    [isValid |-> Len(Filter(issues, "error")) = 0,
     errors |-> Filter(issues, "error"),
     warnings |-> Filter(issues, "warning"),
     summary |-> [totalRows |-> totalRows,
                  errorCount |-> Len(Filter(issues, "error")),
                  warningCount |-> Len(Filter(issues, "warning"))]]

RECURSIVE RequiredIssues(_, _, _)
\* requiredFields.forEach(field => validators.required(row[field], field, index))
RequiredIssues(row, fields, index) ==
    IF fields = <<>> THEN <<>>
    ELSE validators_required(row[Head(fields)], Text(Head(fields)), index)
         \o RequiredIssues(row, Tail(fields), index)

RECURSIVE NumericIssues(_, _, _)
\* numericFields.forEach(field => { if (row[field]) validators.dataType(...) })
NumericIssues(row, fields, index) ==
    IF fields = <<>> THEN <<>>
    ELSE (IF Truthy(row[Head(fields)])
          THEN validators_dataType(row[Head(fields)], "number", Text(Head(fields)), index,
                                   FALSE)
          ELSE <<>>)
         \o NumericIssues(row, Tail(fields), index)

ClientRequiredFields == <<"ClientID", "ClientName", "PriorityLevel">>
WorkerRequiredFields == <<"WorkerID", "WorkerName", "Skills">>
WorkerNumericFields == <<"AvailableSlots", "MaxLoadPerPhase", "QualificationLevel">>
TaskRequiredFields == <<"TaskID", "TaskName", "Category">>
TaskNumericFields == <<"Duration", "MaxConcurrent">>

\* the body of data.forEach in validateClientData, for the row at index (0-based)
ClientRowIssues(row, index) ==
    RequiredIssues(row, ClientRequiredFields, index)
    \o validators_dataType(row.PriorityLevel, "number", Text("PriorityLevel"), index, FALSE)
    \o validators_range(row.PriorityLevel, RangeMin, RangeMax, Text("PriorityLevel"), index)

\* the body of data.forEach in validateWorkerData
WorkerRowIssues(row, index) ==
    RequiredIssues(row, WorkerRequiredFields, index)
    \o NumericIssues(row, WorkerNumericFields, index)
    \o (IF Truthy(row.QualificationLevel)
        THEN validators_range(row.QualificationLevel, RangeMin, RangeMax,
                              Text("QualificationLevel"), index)
        ELSE <<>>)

\* the body of data.forEach in validateTaskData
TaskRowIssues(row, index) ==
    RequiredIssues(row, TaskRequiredFields, index)
    \o NumericIssues(row, TaskNumericFields, index)

RECURSIVE ClientIssuesFrom_StopsAtFailure(_, _)
ClientIssuesFrom_StopsAtFailure(rows, i) ==
    IF i > Len(rows) THEN <<>>
    ELSE IF RequiredIssues(rows[i], ClientRequiredFields, i - 1) # <<>>
         THEN RequiredIssues(rows[i], ClientRequiredFields, i - 1)
         ELSE ClientRowIssues(rows[i], i - 1) \o ClientIssuesFrom_StopsAtFailure(rows, i + 1)

RECURSIVE ClientIssuesFrom(_, _)
ClientIssuesFrom(rows, i) ==
    IF i > Len(rows) THEN <<>>
    ELSE ClientRowIssues(rows[i], i - 1) \o ClientIssuesFrom(rows, i + 1)

RECURSIVE WorkerIssuesFrom(_, _)
WorkerIssuesFrom(rows, i) ==
    IF i > Len(rows) THEN <<>>
    ELSE WorkerRowIssues(rows[i], i - 1) \o WorkerIssuesFrom(rows, i + 1)

RECURSIVE TaskIssuesFrom(_, _)
TaskIssuesFrom(rows, i) ==
    IF i > Len(rows) THEN <<>>
    ELSE TaskRowIssues(rows[i], i - 1) \o TaskIssuesFrom(rows, i + 1)

\* data.map(row => row[field])
Column(rows, field) == [i \in 1..Len(rows) |-> rows[i][field]]

\* the issue list of validateClientData before it is split by severity
ClientIssues(rows) ==
    ClientIssuesFrom(rows, 1)
    \o validators_duplicates(Column(rows, "ClientID"), Text("ClientID"))

WorkerIssues(rows) ==
    WorkerIssuesFrom(rows, 1)
    \o validators_duplicates(Column(rows, "WorkerID"), Text("WorkerID"))

TaskIssues(rows) ==
    TaskIssuesFrom(rows, 1)
    \o validators_duplicates(Column(rows, "TaskID"), Text("TaskID"))

validateClientData(rows) == ValidationResult(ClientIssues(rows), Len(rows))
validateWorkerData(rows) == ValidationResult(WorkerIssues(rows), Len(rows))
validateTaskData(rows) == ValidationResult(TaskIssues(rows), Len(rows))

----------------------------------------------------------------------------
(* Inputs of the validation runs *)

MaxRows == 2

NoResult == [none |-> TRUE]

\* all sequences of at most n elements of S
SeqsUpTo(S, n) == UNION {[1..k -> S] : k \in 0..n}

Kinds == {"clients", "workers", "tasks"}

\* the rows of a file as the loaders deliver them
Init ==
    /\ pc = "start"
    /\ dataType \in Kinds
    /\ LET
       \* identifier cells: absent, and two spellings of one identifier
       IdCells == {Undefined, Str(Text("A")), Str(Text("a"))}
       \* text cells: absent or filled
       TextCells == {Undefined, Str(Text("n"))}
       \* cells of a numeric column, as text and as the numbers the loaders produce
       NumericCells ==
           {Undefined, Null, Str(<<>>), Str(Text(" ")), Str(Text("abc")),
            Str(Text("5")), Str(Text("1.5")), Str(Text("12")), Num(0), Num(12)}
       \* the declared format of AvailableSlots is a list of phase numbers
       SlotCells == {Undefined, Str(Text("1,3,5")), Num(3)}

       ClientRows ==
           [ClientID : IdCells, ClientName : TextCells, PriorityLevel : NumericCells]

       \* worker rows vary the required columns of a row whose numeric columns are
       \* well formed, or the numeric columns of a row whose required columns are filled
       WorkerRows ==
           [WorkerID : IdCells, WorkerName : TextCells, Skills : {Str(<<>>), Str(Text("s"))},
            AvailableSlots : {Num(3)}, MaxLoadPerPhase : {Str(Text("2"))},
            QualificationLevel : {Str(Text("5"))}]
           \cup
           [WorkerID : {Str(Text("A")), Str(Text("a"))}, WorkerName : {Str(Text("n"))},
            Skills : {Str(Text("s"))}, AvailableSlots : SlotCells \ {Undefined},
            MaxLoadPerPhase : {Undefined, Str(Text("x"))},
            QualificationLevel : NumericCells \ {Null, Str(<<>>), Str(Text(" ")), Num(12)}]

       TaskRows ==
           [TaskID : IdCells, TaskName : TextCells, Category : {Null, Str(Text(" ")), Str(Text("c"))},
            Duration : {Str(Text("2"))}, MaxConcurrent : {Num(1)}]
           \cup
           [TaskID : {Str(Text("A")), Str(Text("a"))}, TaskName : {Str(Text("n"))},
            Category : {Str(Text("c"))},
            Duration : {Undefined, Str(<<>>), Str(Text("abc")), Str(Text("2")), Num(0)},
            MaxConcurrent : {Null, Str(Text("x")), Num(1)}]

       RowsOf(kind) ==
           CASE kind = "clients" -> ClientRows
             [] kind = "workers" -> WorkerRows
             [] kind = "tasks" -> TaskRows
       IN  data \in SeqsUpTo(RowsOf(dataType), MaxRows)
    /\ query = <<>>
    /\ values = <<>>
    /\ input = <<>>
    /\ grid = <<>>
    /\ result = NoResult

ValidateClientData ==
    /\ pc = "start"
    /\ dataType = "clients"
    /\ result' = validateClientData(data)
    /\ pc' = "done"
    /\ UNCHANGED <<dataType, data, query, values, input, grid>>

ValidateWorkerData ==
    /\ pc = "start"
    /\ dataType = "workers"
    /\ result' = validateWorkerData(data)
    /\ pc' = "done"
    /\ UNCHANGED <<dataType, data, query, values, input, grid>>

ValidateTaskData ==
    /\ pc = "start"
    /\ dataType = "tasks"
    /\ result' = validateTaskData(data)
    /\ pc' = "done"
    /\ UNCHANGED <<dataType, data, query, values, input, grid>>

Next == ValidateClientData \/ ValidateWorkerData \/ ValidateTaskData

Spec == Init /\ [][Next]_vars

----------------------------------------------------------------------------
(* validators.duplicates on its own: an identifier column *)

MaxIds == 4

InitDuplicates ==
    /\ pc = "start"
    /\ dataType = "none"
    /\ data = <<>>
    /\ query = <<>>
    /\ LET
       DuplicateCells ==
           {Undefined, Str(<<>>), Str(Text(" ")), Str(<<\H00a0>>), Str(Text("A")), Str(Text("a")), Str(Text(" A")),
            Str(Text("B")), Str(<<\H00c9>>), Str(<<\H00e9>>), Num(0), Num(5)}
       IN  values \in SeqsUpTo(DuplicateCells, MaxIds)
    /\ input = <<>>
    /\ grid = <<>>
    /\ result = NoResult

Duplicates ==
    /\ pc = "start"
    /\ \E fieldName \in {"ClientID", "WorkerID", "TaskID"} :
           result' = validators_duplicates(values, Text(fieldName))
    /\ pc' = "done"
    /\ UNCHANGED <<dataType, data, query, values, input, grid>>

SpecDuplicates == InitDuplicates /\ [][Duplicates]_vars

----------------------------------------------------------------------------
(* Properties of the validation engine *)

\* number of elements of seq that satisfy the test P
Count(seq, P(_)) == Cardinality({i \in 1..Len(seq) : P(seq[i])})

\* a cell that is absent, or empty after trimming
EmptyCell(v) == v.t \in {"undefined", "null"} \/ (v.t = "string" /\ Trim(v.s) = <<>>)

RequiredFieldsOf(kind) ==
    CASE kind = "clients" -> ClientRequiredFields
      [] kind = "workers" -> WorkerRequiredFields
      [] kind = "tasks" -> TaskRequiredFields

NumericFieldsOf(kind) ==
    CASE kind = "clients" -> <<"PriorityLevel">>
      [] kind = "workers" -> WorkerNumericFields
      [] kind = "tasks" -> TaskNumericFields

RangeFieldsOf(kind) ==
    CASE kind = "clients" -> <<"PriorityLevel">>
      [] kind = "workers" -> <<"QualificationLevel">>
      [] kind = "tasks" -> <<>>

Range(seq) == {seq[i] : i \in 1..Len(seq)}

StartsWith(s, prefix) ==
    Len(s) >= Len(prefix) /\ SubSeq(s, 1, Len(prefix)) = prefix

IsRequiredIssue(e, i, f) ==
    e.row = i - 1 /\ e.column = Text(f) /\ e.error = Text(f) \o Text(" is required")

IsTypeIssue(e, i, f) ==
    e.row = i - 1 /\ e.column = Text(f) /\ e.error = Text(f) \o Text(" must be a number")

IsRangeIssue(e, i, f) ==
    /\ e.row = i - 1
    /\ e.column = Text(f)
    /\ StartsWith(e.error, Text(f) \o Text(" must be between "))

\* C1: the report's isValid is true exactly when errors is empty, the summary
\* counts are the lengths of errors and warnings, and errors holds only
\* error-severity issues, warnings only warning-severity issues.
ReportIsConsistent ==
    pc = "done" =>
        /\ result.isValid = (result.errors = <<>>)
        /\ result.summary.errorCount = Len(result.errors)
        /\ result.summary.warningCount = Len(result.warnings)
        /\ \A i \in 1..Len(result.errors) : result.errors[i].severity = "error"
        /\ \A i \in 1..Len(result.warnings) : result.warnings[i].severity = "warning"

\* a report with warnings and no error, and so valid
ReportWithWarningsOnly ==
    pc = "done" /\ result.warnings # <<>> /\ result.errors = <<>> /\ result.isValid

\* C4: for every row and every required field of its kind, exactly one
\* '<field> is required' error when the cell is absent or empty after trimming,
\* and none when the cell holds a non-empty value.
RequiredErrorIffEmpty ==
    pc = "done" =>
        \A i \in 1..Len(data) : \A f \in Range(RequiredFieldsOf(dataType)) :
            LET IsIt(e) == IsRequiredIssue(e, i, f) IN
            /\ Count(result.errors, IsIt) = (IF EmptyCell(data[i][f]) THEN 1 ELSE 0)
            /\ Count(result.warnings, IsIt) = 0

\* C5: for every row and numeric field, a non-empty cell that does not parse as
\* a number yields exactly one type error and no range warning for that field;
\* an empty or absent cell yields no type issue.
TypeErrorForUnparsable ==
    pc = "done" =>
        \A i \in 1..Len(data) : \A f \in Range(NumericFieldsOf(dataType)) :
            LET v == data[i][f]
                IsType(e) == IsTypeIssue(e, i, f)
                IsRange(e) == IsRangeIssue(e, i, f)
            IN /\ (~EmptyCell(v) /\ IsNaN(ToNumber(v))) =>
                      /\ Count(result.errors, IsType) = 1
                      /\ Count(result.warnings, IsType) = 0
                      /\ Count(result.warnings, IsRange) = 0
                      /\ Count(result.errors, IsRange) = 0
               /\ EmptyCell(v) =>
                      /\ Count(result.errors, IsType) = 0
                      /\ Count(result.warnings, IsType) = 0

\* a client row whose PriorityLevel is "abc" got its type error
TypeErrorReported ==
    /\ pc = "done"
    /\ dataType = "clients"
    /\ \E i \in 1..Len(data) :
        /\ data[i].PriorityLevel = Str(Text("abc"))
        /\ \E k \in 1..Len(result.errors) : IsTypeIssue(result.errors[k], i, "PriorityLevel")

\* a cell that holds a number: a number, or non-empty text that parses as one
NumericCell(v) == ~EmptyCell(v) /\ ~IsNaN(ToNumber(v))

\* C6: a numeric value outside [1,10] yields exactly one warning and no error
\* for that field, a numeric value inside [1,10] yields no range issue.
RangeWarningOnly ==
    pc = "done" =>
        \A i \in 1..Len(data) : \A f \in Range(RangeFieldsOf(dataType)) :
            LET v == data[i][f]
                IsRange(e) == IsRangeIssue(e, i, f)
                OnField(e) == e.row = i - 1 /\ e.column = Text(f)
                outside == \/ Less(ToNumber(v), Finite(RangeMin))
                           \/ Less(Finite(RangeMax), ToNumber(v))
            IN NumericCell(v) =>
                /\ Count(result.warnings, IsRange) = (IF outside THEN 1 ELSE 0)
                /\ Count(result.warnings, OnField) = (IF outside THEN 1 ELSE 0)
                /\ Count(result.errors, OnField) = 0

\* values whose row is reported by the duplicate check
FlaggedRows == {result[k].row + 1 : k \in 1..Len(result)}

\* the text of an identifier cell, letter case ignored
IdText(v) == ToLowerCase(ToString(v))

\* C2: row i gets a duplicate error exactly when its identifier is not
\* empty/whitespace-only and equals, ignoring letter case, the identifier of an
\* earlier row; every flagged row gets one error.
DuplicateIffSeenBefore ==
    pc = "done" =>
        /\ \A i \in 1..Len(values) :
            (i \in FlaggedRows) <=>
                /\ ~EmptyCell(values[i])
                /\ \E j \in 1..(i - 1) :
                    ~EmptyCell(values[j]) /\ IdText(values[j]) = IdText(values[i])
        /\ Len(result) = Cardinality(FlaggedRows)

\* C3: a row whose identifier differs from an earlier row's only by leading or
\* trailing white space and letter case is reported as a duplicate.
DuplicateAfterTrimming ==
    pc = "done" =>
        \A i \in 1..Len(values) : \A j \in 1..(i - 1) :
            (/\ ~EmptyCell(values[i])
             /\ ~EmptyCell(values[j])
             /\ Trim(IdText(values[j])) = Trim(IdText(values[i])))
            => i \in FlaggedRows


----------------------------------------------------------------------------
(* The regular expressions of lib/ai-helpers.ts *)

Space == Star(Cls(WhiteSpace))
Digit == Cls(DigitSet)
\* /priority\s*(?:level)?\s*(\d+)/
PriorityRe ==
    [pre |-> Cat(<<Lit(Text("priority")), Space, Opt(Lit(Text("level"))), Space>>),
     group |-> Plus(Digit)]

\* /name\s*['"]?([^'"]+)['"]?/
NameRe ==
    [pre |-> Cat(<<Lit(Text("name")), Space, Opt(Cls({CharCode["'"], CharCode["\""]}))>>),
     group |-> Plus(NotCls({CharCode["'"], CharCode["\""]}))]

\* /(?:requested\s*)?tasks\s*([a-z0-9, ]+)/
TasksRe ==
    [pre |-> Cat(<<Opt(Cat(<<Lit(Text("requested")), Space>>)), Lit(Text("tasks")), Space>>),
     group |-> Plus(Cls(LowerSet \cup DigitSet \cup {CharCode[","], CharCode[" "]}))]

\* /group\s*([a-z0-9]+)/
GroupRe ==
    [pre |-> Cat(<<Lit(Text("group")), Space>>),
     group |-> Plus(Cls(LowerSet \cup DigitSet))]

\* /skill[s]?\s*[:\-]?\s*([a-z, ]+)/
SkillRe ==
    [pre |-> Cat(<<Lit(Text("skill")), Opt(Cls({CharCode["s"]})), Space, Opt(Cls({CharCode[":"], CharCode["-"]})), Space>>),
     group |-> Plus(Cls(LowerSet \cup {CharCode[","], CharCode[" "]}))]

\* /phase\s*(\d+)/
PhaseRe ==
    [pre |-> Cat(<<Lit(Text("phase")), Space>>),
     group |-> Plus(Digit)]

\* /(?:max load|load limit)\s*(?:of)?\s*(\d+)/
LoadRe ==
    [pre |-> Cat(<<Alt(<<Lit(Text("max load")), Lit(Text("load limit"))>>), Space,
                   Opt(Lit(Text("of"))), Space>>),
     group |-> Plus(Digit)]

\* /worker group\s*([a-z0-9]+)/
WorkerGroupRe ==
    [pre |-> Cat(<<Lit(Text("worker group")), Space>>),
     group |-> Plus(Cls(LowerSet \cup DigitSet))]

\* /duration\s*(?:more than|>)\s*(\d+)/
DurationRe ==
    [pre |-> Cat(<<Lit(Text("duration")), Space, Alt(<<Lit(Text("more than")), Lit(Text(">"))>>), Space>>),
     group |-> Plus(Digit)]

\* \d+(?:-\d+)?
\* /phase[s]?\s*(\d+(?:-\d+)?(?:,\s*\d+(?:-\d+)?)*)/
PhasesRe ==
    LET PhaseItem == Cat(<<Plus(Digit), Opt(Cat(<<Lit(Text("-")), Plus(Digit)>>))>>)
    IN  [pre |-> Cat(<<Lit(Text("phase")), Opt(Cls({CharCode["s"]})), Space>>),
         group |-> Cat(<<PhaseItem, Star(Cat(<<Lit(Text(",")), Space, PhaseItem>>))>>)]

\* /(?:required skill[s]?|skills needed)\s*[:\-]?\s*([a-z, ]+)/
RequiredSkillRe ==
    [pre |-> Cat(<<Alt(<<Cat(<<Lit(Text("required skill")), Opt(Cls({CharCode["s"]}))>>),
                         Lit(Text("skills needed"))>>),
                   Space, Opt(Cls({CharCode[":"], CharCode["-"]})), Space>>),
     group |-> Plus(Cls(LowerSet \cup {CharCode[","], CharCode[" "]}))]

\* /(?:max concurrent|parallel)\s*(?:of)?\s*(\d+)/
ConcurrentRe ==
    [pre |-> Cat(<<Alt(<<Lit(Text("max concurrent")), Lit(Text("parallel"))>>), Space,
                   Opt(Lit(Text("of"))), Space>>),
     group |-> Plus(Digit)]

RECURSIVE Split(_, _)
\* String.prototype.split with a one-character separator
Split(s, sep) ==
    IF \E i \in 1..Len(s) : s[i] = sep
    THEN LET i == CHOOSE j \in 1..Len(s) : s[j] = sep /\ \A h \in 1..(j - 1) : s[h] # sep
         IN <<SubSeq(s, 1, i - 1)>> \o Split(SubSeq(s, i + 1, Len(s)), sep)
    ELSE <<s>>

\* a >= b, false when a is NaN
Geq(a, b) == ~a.nan /\ ~b.nan /\ ~Less(a, b)
Leq(a, b) == ~a.nan /\ ~b.nan /\ ~Less(b, a)
Gt(a, b) == ~a.nan /\ ~b.nan /\ Less(b, a)

\* parts.some(t => field.toLowerCase().includes(t.trim().toLowerCase()))
SomePartIn(parts, field) ==
    \E i \in 1..Len(parts) : Includes(ToLowerCase(field.s), ToLowerCase(Trim(parts[i])))

----------------------------------------------------------------------------
(* processNaturalLanguageQuery: what the filter callback does with one item. *)
(* Each rule is one if-block of the callback and ends in "true" (return      *)
(* true), "false" (return false), "throw" (a TypeError: a string method      *)
(* called on a number) or "next" (control reaches the following if-block).   *)

\* field && field.toLowerCase().includes(...): calling toLowerCase on a
\* truthy value that is not a string throws
TextTest(field, holds) ==
    IF ~Truthy(field) THEN "next"
    ELSE IF field.t # "string" THEN "throw"
    ELSE IF holds THEN "true" ELSE "next"

\* the default high priority threshold
DefaultMinPriority == 4

\* the threshold of the client priority rule
MinPriority(q) ==
    LET priorityMatch == Match(PriorityRe, q) IN
    IF priorityMatch.found THEN ParseIntString(priorityMatch.group) ELSE Finite(DefaultMinPriority)

ClientPriorityRule(q, item) ==
    IF Includes(q, Text("high priority")) \/ Includes(q, Text("priority"))
    THEN IF Truthy(item.PriorityLevel) /\ Geq(ParseInt(item.PriorityLevel), MinPriority(q))
         THEN "true" ELSE "next"
    ELSE "next"

ClientNameRule(q, item) ==
    IF Includes(q, Text("client name")) \/ Includes(q, Text("name"))
    THEN LET nameMatch == Match(NameRe, q) IN
         IF nameMatch.found
         THEN TextTest(item.ClientName,
                       Includes(ToLowerCase(item.ClientName.s), ToLowerCase(nameMatch.group)))
         ELSE "next"
    ELSE "next"

ClientTasksRule(q, item) ==
    IF Includes(q, Text("requested tasks")) \/ Includes(q, Text("tasks"))
    THEN LET tasksMatch == Match(TasksRe, q) IN
         IF tasksMatch.found
         THEN TextTest(item.RequestedTaskIDs,
                       SomePartIn(Split(tasksMatch.group, CharCode[","]), item.RequestedTaskIDs))
         ELSE "next"
    ELSE "next"

ClientGroupRule(q, item) ==
    IF Includes(q, Text("group"))
    THEN LET groupMatch == Match(GroupRe, q) IN
         IF groupMatch.found
         THEN TextTest(item.GroupTag,
                       Includes(ToLowerCase(item.GroupTag.s), ToLowerCase(groupMatch.group)))
         ELSE "next"
    ELSE "next"

WorkerSkillRule(q, item) ==
    IF Includes(q, Text("skill")) \/ Includes(q, Text("skills"))
    THEN LET skillMatch == Match(SkillRe, q) IN
         IF skillMatch.found
         THEN TextTest(item.Skills, SomePartIn(Split(skillMatch.group, CharCode[","]), item.Skills))
         ELSE "next"
    ELSE "next"

\* the two tests of the availability block: AvailableSlots.includes(phase), which
\* only a string has, then AvailableSlots.length > 0
WorkerAvailableRule(q, item) ==
    IF Includes(q, Text("available")) \/ Includes(q, Text("slots"))
    THEN LET phaseMatch == Match(PhaseRe, q)
             slots == item.AvailableSlots
         IN IF ~Truthy(slots) THEN "next"
            ELSE IF phaseMatch.found /\ slots.t # "string" THEN "throw"
            ELSE IF phaseMatch.found /\ Includes(slots.s, phaseMatch.group) THEN "true"
            ELSE IF slots.t = "string" /\ Len(slots.s) > 0 THEN "true"
            ELSE "next"
    ELSE "next"

WorkerLoadRule(q, item) ==
    IF Includes(q, Text("max load")) \/ Includes(q, Text("load limit"))
    THEN LET loadMatch == Match(LoadRe, q) IN
         IF /\ loadMatch.found
            /\ Truthy(item.MaxLoadPerPhase)
            /\ Leq(ParseInt(item.MaxLoadPerPhase), ParseIntString(loadMatch.group))
         THEN "true" ELSE "next"
    ELSE "next"

WorkerGroupRule(q, item) ==
    IF Includes(q, Text("worker group"))
    THEN LET groupMatch == Match(WorkerGroupRe, q) IN
         IF groupMatch.found
         THEN TextTest(item.WorkerGroup,
                       Includes(ToLowerCase(item.WorkerGroup.s), ToLowerCase(groupMatch.group)))
         ELSE "next"
    ELSE "next"

TaskDurationRule(q, item) ==
    IF Includes(q, Text("duration more than")) \/ Includes(q, Text("duration >"))
    THEN LET match == Match(DurationRe, q) IN
         IF /\ match.found
            /\ Truthy(item.Duration)
            /\ Gt(ParseInt(item.Duration), ParseIntString(match.group))
         THEN "true" ELSE "next"
    ELSE "next"

TaskPhaseRule_FallsThrough(q, item) ==
    IF Includes(q, Text("phase")) \/ Includes(q, Text("preferred phases"))
    THEN LET phaseMatch == Match(PhasesRe, q) IN
         IF /\ phaseMatch.found
            /\ Truthy(item.PreferredPhases)
            /\ \E i \in 1..Len(Split(phaseMatch.group, CharCode[","])) :
                   Includes(ToString(item.PreferredPhases),
                            Trim(Split(phaseMatch.group, CharCode[","])[i]))
         THEN "true" ELSE "next"
    ELSE "next"

\* the only block that returns false: its result is returned as it is
TaskPhaseRule(q, item) ==
    IF Includes(q, Text("phase")) \/ Includes(q, Text("preferred phases"))
    THEN LET phaseMatch == Match(PhasesRe, q) IN
         IF phaseMatch.found /\ Truthy(item.PreferredPhases)
         THEN LET phasesToMatch == Split(phaseMatch.group, CharCode[","]) IN
              IF \E i \in 1..Len(phasesToMatch) :
                     Includes(ToString(item.PreferredPhases), Trim(phasesToMatch[i]))
              THEN "true" ELSE "false"
         ELSE "next"
    ELSE "next"

TaskSkillRule(q, item) ==
    IF Includes(q, Text("required skill")) \/ Includes(q, Text("skills needed"))
    THEN LET skillMatch == Match(RequiredSkillRe, q) IN
         IF skillMatch.found
         THEN TextTest(item.RequiredSkills,
                       SomePartIn(Split(skillMatch.group, CharCode[","]), item.RequiredSkills))
         ELSE "next"
    ELSE "next"

TaskConcurrentRule(q, item) ==
    IF Includes(q, Text("max concurrent")) \/ Includes(q, Text("parallel"))
    THEN LET concurrentMatch == Match(ConcurrentRe, q) IN
         IF /\ concurrentMatch.found
            /\ Truthy(item.MaxConcurrent)
            /\ Leq(ParseInt(item.MaxConcurrent), ParseIntString(concurrentMatch.group))
         THEN "true" ELSE "next"
    ELSE "next"

\* the if-blocks of each filter callback, top to bottom
RuleCount == 4

Rule(kind, k, q, item) ==
    CASE kind = "clients" ->
            (CASE k = 1 -> ClientPriorityRule(q, item)
               [] k = 2 -> ClientNameRule(q, item)
               [] k = 3 -> ClientTasksRule(q, item)
               [] k = 4 -> ClientGroupRule(q, item))
      [] kind = "workers" ->
            (CASE k = 1 -> WorkerSkillRule(q, item)
               [] k = 2 -> WorkerAvailableRule(q, item)
               [] k = 3 -> WorkerLoadRule(q, item)
               [] k = 4 -> WorkerGroupRule(q, item))
      [] kind = "tasks" ->
            (CASE k = 1 -> TaskDurationRule(q, item)
               [] k = 2 -> TaskPhaseRule(q, item)
               [] k = 3 -> TaskSkillRule(q, item)
               [] k = 4 -> TaskConcurrentRule(q, item))

RECURSIVE Callback(_, _, _, _)
\* the filter callback from its k-th if-block on; the final statement is return false
Callback(kind, k, q, item) ==
    IF k > RuleCount THEN "false"
    ELSE LET r == Rule(kind, k, q, item) IN
         IF r = "next" THEN Callback(kind, k + 1, q, item) ELSE r

\* value && value.toString().toLowerCase().includes(lowercaseQuery), over Object.values(item)
GenericKeeps(q, item) ==
    \E f \in DOMAIN item :
        Truthy(item[f]) /\ Includes(ToLowerCase(ToString(item[f])), q)

RECURSIVE SelectIndices(_, _, _)
SelectIndices(outcomes, i, want) ==
    IF i > Len(outcomes) THEN <<>>
    ELSE (IF outcomes[i] = want THEN <<i>> ELSE <<>>) \o SelectIndices(outcomes, i + 1, want)

\* Array.prototype.filter with a callback that may throw: the kept items in
\* order, or the exception of the first item whose callback throws
FilterItems(items, outcomes) ==
    IF \E i \in 1..Len(items) : outcomes[i] = "throw"
    THEN [threw |-> TRUE, items |-> <<>>]
    ELSE LET kept == SelectIndices(outcomes, 1, "true") IN
         [threw |-> FALSE, items |-> [j \in 1..Len(kept) |-> items[kept[j]]]]

\* the last statement: the text search across all fields
GenericSearch(lowercaseQuery, items) ==
    FilterItems(items, [i \in 1..Len(items) |->
                           IF GenericKeeps(lowercaseQuery, items[i]) THEN "true" ELSE "false"])

\* each of the three kinds has its own filter, which returns; the text search
\* is what is left for any other dataType
processNaturalLanguageQuery(rawQuery, items, kind) ==
    LET lowercaseQuery == ToLowerCase(rawQuery) IN
    IF kind \in {"clients", "workers", "tasks"}
    THEN FilterItems(items, [i \in 1..Len(items) |-> Callback(kind, 1, lowercaseQuery, items[i])])
    ELSE GenericSearch(lowercaseQuery, items)


----------------------------------------------------------------------------
(* Inputs of the query runs *)

MaxQueryRows == 2

InitQuery ==
    /\ pc = "start"
    /\ dataType \in Kinds
    /\ LET
       \* 'priority', 'priority 0', 'Priority 5', 'priority level 6', 'name acme', 'priority 9 name acme',
       \* 'tasks t1', 'group a', 'high priority group b', and two queries no pattern recognizes
       ClientQueries ==
           {Text("priority"), Text("priority 0"), Text("Priority 5"), Text("priority level 6"), Text("name acme"), Text("priority 9 name acme"), Text("tasks t1"),
            Text("group a"), Text("high priority group b"), Text("acme"), Text("xyz123")}

       \* 'skills: java', 'available phase 3', 'slots', 'max load 2', 'worker group a',
       \* 'skill go max load 1', and 'java', which no pattern recognizes
       WorkerQueries ==
           {Text("skills: java"), Text("available phase 3"), Text("slots"), Text("max load 2"), Text("worker group a"),
            Text("skill go max load 1"), Text("java")}

       \* 'duration > 2', 'phase 2', 'phases 1-3, 5', 'required skill java', 'parallel 1',
       \* 'phase 2 parallel 1', 'duration > 2 phase 2', and 'build', which no pattern recognizes
       TaskQueries ==
           {Text("duration > 2"), Text("duration > 2 phase 2"), Text("phase 2"), Text("phases 1-3, 5"), Text("required skill java"), Text("parallel 1"),
            Text("phase 2 parallel 1"), Text("build")}

       QueriesOf(kind) ==
           CASE kind = "clients" -> ClientQueries
             [] kind = "workers" -> WorkerQueries
             [] kind = "tasks" -> TaskQueries

       \* clients that vary name and priority, or requested tasks and group, and
       \* a client whose priority is the number 0
       QueryClients ==
           [ClientID : {Str(Text("C1"))}, ClientName : {Undefined, Str(Text("Acme")), Num(7)},
            PriorityLevel : {Undefined, Str(Text("5")), Num(9)},
            RequestedTaskIDs : {Undefined}, GroupTag : {Undefined}]
           \cup
           [ClientID : {Str(Text("C1"))}, ClientName : {Str(Text("Zero"))}, PriorityLevel : {Num(0)},
            RequestedTaskIDs : {Undefined}, GroupTag : {Undefined}]
           \cup
           [ClientID : {Str(Text("C1"))}, ClientName : {Str(Text("Acme"))}, PriorityLevel : {Str(Text("1"))},
            RequestedTaskIDs : {Str(Text("T1,T2")), Num(3)}, GroupTag : {Undefined, Str(Text("GroupA"))}]

       \* workers that vary skills and slots, or load and group
       QueryWorkers ==
           [WorkerID : {Str(Text("W1"))}, WorkerName : {Str(Text("Ann"))},
            Skills : {Undefined, Str(Text("Java,SQL"))},
            AvailableSlots : {Undefined, Str(Text("1,3,5")), Str(Text("2,4")), Num(3)},
            MaxLoadPerPhase : {Undefined}, WorkerGroup : {Undefined},
            QualificationLevel : {Undefined}]
           \cup
           [WorkerID : {Str(Text("W1"))}, WorkerName : {Str(Text("Ann"))}, Skills : {Str(Text("go"))},
            AvailableSlots : {Undefined}, MaxLoadPerPhase : {Str(Text("1")), Str(Text("3")), Num(2)},
            WorkerGroup : {Str(Text("GroupA")), Str(Text("GroupB"))}, QualificationLevel : {Undefined}]

       \* tasks that vary duration and preferred phases, or skills and concurrency
       QueryTasks ==
           [TaskID : {Str(Text("T1"))}, TaskName : {Str(Text("Build"))}, Category : {Undefined},
            Duration : {Str(Text("1")), Num(5)},
            RequiredSkills : {Undefined},
            PreferredPhases : {Undefined, Str(Text("1-3")), Str(Text("[2,4,5]")), Num(2)},
            MaxConcurrent : {Undefined}]
           \cup
           [TaskID : {Str(Text("T1"))}, TaskName : {Str(Text("Build"))}, Category : {Undefined},
            Duration : {Str(Text("1"))}, RequiredSkills : {Undefined, Str(Text("Java")), Num(1)},
            PreferredPhases : {Undefined, Str(Text("1-3"))}, MaxConcurrent : {Str(Text("1")), Str(Text("3"))}]

       QueryRowsOf(kind) ==
           CASE kind = "clients" -> QueryClients
             [] kind = "workers" -> QueryWorkers
             [] kind = "tasks" -> QueryTasks
       IN  /\ data \in SeqsUpTo(QueryRowsOf(dataType), MaxQueryRows)
           /\ query \in QueriesOf(dataType)
    /\ values = <<>>
    /\ input = <<>>
    /\ grid = <<>>
    /\ result = NoResult

ProcessNaturalLanguageQuery ==
    /\ pc = "start"
    /\ result' = processNaturalLanguageQuery(query, data, dataType)
    /\ pc' = "done"
    /\ UNCHANGED <<dataType, data, query, values, input, grid>>

SpecQuery == InitQuery /\ [][ProcessNaturalLanguageQuery]_vars


----------------------------------------------------------------------------
(* Properties of the query filter *)

\* whether the k-th pattern of the kind recognizes the (lower-cased) query: its
\* keyword is present and, where the pattern needs a parameter, the parameter
\* can be extracted
PatternMatches(kind, k, q) ==
    CASE kind = "clients" ->
            (CASE k = 1 -> Includes(q, Text("priority"))
               [] k = 2 -> Includes(q, Text("name")) /\ Match(NameRe, q).found
               [] k = 3 -> Includes(q, Text("tasks")) /\ Match(TasksRe, q).found
               [] k = 4 -> Includes(q, Text("group")) /\ Match(GroupRe, q).found)
      [] kind = "workers" ->
            (CASE k = 1 -> Includes(q, Text("skill")) /\ Match(SkillRe, q).found
               [] k = 2 -> Includes(q, Text("available")) \/ Includes(q, Text("slots"))
               [] k = 3 -> (Includes(q, Text("max load")) \/ Includes(q, Text("load limit")))
                           /\ Match(LoadRe, q).found
               [] k = 4 -> Includes(q, Text("worker group")) /\ Match(WorkerGroupRe, q).found)
      [] kind = "tasks" ->
            (CASE k = 1 -> (Includes(q, Text("duration more than")) \/ Includes(q, Text("duration >")))
                           /\ Match(DurationRe, q).found
               [] k = 2 -> Includes(q, Text("phase")) /\ Match(PhasesRe, q).found
               [] k = 3 -> (Includes(q, Text("required skill")) \/ Includes(q, Text("skills needed")))
                           /\ Match(RequiredSkillRe, q).found
               [] k = 4 -> (Includes(q, Text("max concurrent")) \/ Includes(q, Text("parallel")))
                           /\ Match(ConcurrentRe, q).found)

MatchingPatterns(kind, q) == {k \in 1..RuleCount : PatternMatches(kind, k, q)}

\* the first pattern, top to bottom, that recognizes the query
FirstPattern(kind, q) ==
    CHOOSE k \in MatchingPatterns(kind, q) : \A h \in MatchingPatterns(kind, q) : k <= h

\* the records that satisfy the intent of the k-th pattern
SelectedBy(kind, k, q, items) ==
    LET Keeps(item) == Rule(kind, k, q, item) = "true" IN SelectSeq(items, Keeps)

\* C7: only the first pattern that matches the query decides: the result is
\* the records that satisfy that pattern's intent.
FirstMatchWins ==
    (pc = "done" /\ ~result.threw) =>
        LET q == ToLowerCase(query) IN
        MatchingPatterns(dataType, q) # {} =>
            result.items = SelectedBy(dataType, FirstPattern(dataType, q), q, data)

\* C8: a query that no pattern of the kind recognizes returns the records of
\* the generic substring scan.
FallbackIsGenericScan ==
    pc = "done" =>
        LET q == ToLowerCase(query) IN
        MatchingPatterns(dataType, q) = {} => result = GenericSearch(q, data)

\* C9: when the query matches a pattern and no record satisfies that pattern's
\* extracted parameter, the result is empty.
NoFallThroughAfterMatch ==
    (pc = "done" /\ ~result.threw) =>
        LET q == ToLowerCase(query) IN
        (/\ MatchingPatterns(dataType, q) # {}
         /\ SelectedBy(dataType, FirstPattern(dataType, q), q, data) = <<>>)
        => result.items = <<>>

\* C10: the call returns a record sequence and never raises an error.
QueryNeverThrows == pc = "done" => ~result.threw

----------------------------------------------------------------------------
(* String similarity: calculateSimilarity of src/lib/ai-helpers.ts *)

Min(a, b) == IF a < b THEN a ELSE b
Max(a, b) == IF a > b THEN a ELSE b

\* a quotient of two integers, kept exact; the quotient of 0 by 0 is NaN
Fraction(num, den) == [nan |-> FALSE, num |-> num, den |-> den]

\* a > b on numbers; every comparison with NaN is false
Greater(a, b) == ~a.nan /\ ~b.nan /\ a.num * b.den > b.num * a.den

\* matrix[j][i] from matrix[j][i - 1], matrix[j - 1][i], matrix[j - 1][i - 1]
Cell(left, up, diagonal, indicator) ==
    Min(Min(left + 1, up + 1), diagonal + indicator)

\* row j of the matrix, from its first columns (row) and row j - 1 (above);
\* column i is element i + 1 of a row
RECURSIVE MatrixRow(_, _, _, _, _)
MatrixRow(str1, str2, j, above, row) ==
    IF Len(row) = Len(str1) + 1 THEN row
    ELSE LET i == Len(row)
             indicator == IF str1[i] = str2[j] THEN 0 ELSE 1
         IN  MatrixRow(str1, str2, j, above,
                 Append(row, Cell(row[i], above[i + 1], above[i], indicator)))

\* the matrix, filled row by row; row j is element j + 1 of matrix
RECURSIVE Matrix(_, _, _)
Matrix(str1, str2, matrix) ==
    IF Len(matrix) = Len(str2) + 1 THEN matrix
    ELSE LET j == Len(matrix)
         IN  Matrix(str1, str2,
                 Append(matrix, MatrixRow(str1, str2, j, matrix[j], <<j>>)))

\* matrix[str2.length][str1.length]
Distance(str1, str2) ==
    LET first == [i \in 1..(Len(str1) + 1) |-> i - 1]
    IN  Matrix(str1, str2, <<first>>)[Len(str2) + 1][Len(str1) + 1]

\* 1 - distance / Math.max(str1.length, str2.length)
calculateSimilarity(str1, str2) ==
    LET distance == Distance(str1, str2)
        longest == Max(Len(str1), Len(str2))
    IN  IF longest = 0 THEN NaN ELSE Fraction(longest - distance, longest)

----------------------------------------------------------------------------
(* Column mapping: suggestColumnMapping of src/lib/ai-helpers.ts *)

\* s.replace(/[_\s-]/g, '')
RemoveSeparators(s) ==
    LET Kept(c) == c \notin (WhiteSpace \cup {CharCode["_"], CharCode["-"]}) IN SelectSeq(s, Kept)

\* a header that is only put in lower case
normalized_KeepsSeparators(userCol) == ToLowerCase(userCol)

\* const normalized = userCol.toLowerCase().replace(/[_\s-]/g, '')
normalized(userCol) == RemoveSeparators(ToLowerCase(userCol))

\* the alias table, in the order of Object.entries
expectedMappings == <<
    [expected |-> Text("CLIENT_ID"),
     variants |-> <<Text("CLIENT_ID"), Text("client_id"), Text("ClientID"), Text("id"), Text("client_identifier")>>],
    [expected |-> Text("CLIENT_NAME"),
     variants |-> <<Text("CLIENT_NAME"), Text("client_name"), Text("ClientName"), Text("name"), Text("company_name")>>],
    [expected |-> Text("PRIORITY_LEVEL"),
     variants |-> <<Text("PRIORITY_LEVEL"), Text("priority_level"), Text("Priority"), Text("PriorityLevel"), Text("importance")>>],
    [expected |-> Text("REQUESTED_TASK_IDS"),
     variants |-> <<Text("REQUESTED_TASK_IDS"), Text("requested_task_ids"), Text("RequestedTasks"), Text("RequestedTaskIDs"), Text("task_ids"), Text("tasks")>>],
    [expected |-> Text("GROUP_TAG"),
     variants |-> <<Text("GROUP_TAG"), Text("group_tag"), Text("Group"), Text("GroupTag"), Text("team_tag")>>],
    [expected |-> Text("WORKER_ID"),
     variants |-> <<Text("WORKER_ID"), Text("worker_id"), Text("WorkerID"), Text("employee_id"), Text("id")>>],
    [expected |-> Text("WORKER_NAME"),
     variants |-> <<Text("WORKER_NAME"), Text("worker_name"), Text("WorkerName"), Text("name"), Text("employee_name")>>],
    [expected |-> Text("SKILLS"),
     variants |-> <<Text("SKILLS"), Text("skills"), Text("Skills"), Text("capabilities"), Text("expertise")>>],
    [expected |-> Text("AVAILABLE_SLOTS"),
     variants |-> <<Text("AVAILABLE_SLOTS"), Text("available_slots"), Text("AvailableSlots"), Text("availability"), Text("slots")>>],
    [expected |-> Text("MAX_LOAD_PER_PHASE"),
     variants |-> <<Text("MAX_LOAD_PER_PHASE"), Text("max_load_per_phase"), Text("MaxLoad"), Text("MaxLoadPerPhase"), Text("maximum_load"), Text("capacity")>>],
    [expected |-> Text("WORKER_GROUP"),
     variants |-> <<Text("WORKER_GROUP"), Text("worker_group"), Text("Group"), Text("WorkerGroup"), Text("team"), Text("department")>>],
    [expected |-> Text("QUALIFICATION_LEVEL"),
     variants |-> <<Text("QUALIFICATION_LEVEL"), Text("qualification_level"), Text("Qualification"), Text("QualificationLevel"), Text("qualifications"), Text("certifications")>>],
    [expected |-> Text("TASK_ID"),
     variants |-> <<Text("TASK_ID"), Text("task_id"), Text("TaskID"), Text("id"), Text("task_identifier")>>],
    [expected |-> Text("TASK_NAME"),
     variants |-> <<Text("TASK_NAME"), Text("task_name"), Text("TaskName"), Text("name"), Text("title")>>],
    [expected |-> Text("CATEGORY"),
     variants |-> <<Text("CATEGORY"), Text("category"), Text("Category"), Text("type"), Text("task_type")>>],
    [expected |-> Text("DURATION"),
     variants |-> <<Text("DURATION"), Text("duration"), Text("Duration"), Text("time"), Text("estimated_hours")>>],
    [expected |-> Text("REQUIRED_SKILLS"),
     variants |-> <<Text("REQUIRED_SKILLS"), Text("required_skills"), Text("RequiredSkills"), Text("skills_needed")>>],
    [expected |-> Text("PREFERRED_PHASES"),
     variants |-> <<Text("PREFERRED_PHASES"), Text("preferred_phases"), Text("PreferredPhases"), Text("phases")>>],
    [expected |-> Text("MAX_CONCURRENT"),
     variants |-> <<Text("MAX_CONCURRENT"), Text("max_concurrent"), Text("MaxConcurrent"), Text("concurrent_limit")>>]
>>

\* a score that replaces the best one on a tie
Improves_OnTies(score, maxScore) ==
    ~Greater(maxScore, score) /\ Greater(score, Fraction(1, 2))

\* a score that replaces the best one without the threshold
Improves_NoThreshold(score, maxScore) == Greater(score, maxScore)

\* score > maxScore && score > 0.5
Improves(score, maxScore) ==
    Greater(score, maxScore) /\ Greater(score, Fraction(1, 2))

\* variants.forEach, from variant v on; best is [bestMatch, maxScore]
RECURSIVE BestOfVariants(_, _, _, _)
BestOfVariants(userCol, e, v, best) ==
    IF v > Len(expectedMappings[e].variants) THEN best
    ELSE LET variant == expectedMappings[e].variants[v]
             score == calculateSimilarity(normalized(userCol),
                                          RemoveSeparators(ToLowerCase(variant)))
         IN  IF Improves(score, best.maxScore)
             THEN BestOfVariants(userCol, e, v + 1,
                      [bestMatch |-> expectedMappings[e].expected, maxScore |-> score])
             ELSE BestOfVariants(userCol, e, v + 1, best)

\* Object.entries(expectedMappings).forEach: bests lists the best match
\* before the first entry and after each entry handled so far
RECURSIVE BestOfEntries(_, _)
BestOfEntries(userCol, bests) ==
    IF Len(bests) = Len(expectedMappings) + 1 THEN bests[Len(bests)]
    ELSE LET e == Len(bests)
         IN  BestOfEntries(userCol,
                 Append(bests, BestOfVariants(userCol, e, 1, bests[e])))

\* the headers of the runs: the canonical names and some user spellings
Columns ==
    {expectedMappings[e].expected : e \in 1..Len(expectedMappings)}
        \cup {Text("Client Id"), Text("id"), Text("Group"), Text("Priorty"), Text("it"), Text("xyz"), <<>>}

\* the body of userColumns.forEach: what one header adds to suggestions,
\* computed once for each header of the runs
Suggestion ==
    [userCol \in Columns |->
        LET best == BestOfEntries(userCol,
                        <<[bestMatch |-> <<>>, maxScore |-> Fraction(0, 1)]>>)
        IN  IF best.bestMatch # <<>>
            THEN <<[original |-> userCol, suggested |-> best.bestMatch,
                    confidence |-> best.maxScore]>>
            ELSE <<>>]

RECURSIVE suggestColumnMapping(_)
suggestColumnMapping(userColumns) ==
    IF userColumns = <<>> THEN <<>>
    ELSE Suggestion[Head(userColumns)] \o suggestColumnMapping(Tail(userColumns))

----------------------------------------------------------------------------
(* Rule suggestions: suggestRules of src/lib/ai-helpers.ts *)

\* a share that also counts when it is exactly 0.3
AboveShare_OrEqual(highPriorityClients, totalClients) ==
    ~Greater(Fraction(3, 10), Fraction(highPriorityClients, totalClients))

\* highPriorityClients / totalClients > 0.3
AboveShare(highPriorityClients, totalClients) ==
    Greater(Fraction(highPriorityClients, totalClients), Fraction(3, 10))

suggestRules(clientData, workerData, taskData) ==
    LET High(c) == Truthy(c.PriorityLevel) /\ Geq(ParseInt(c.PriorityLevel), Finite(4))
        highPriorityClients == Len(SelectSeq(clientData, High))
        \* parseInt(w.AvailableSlots) || 0
        Slots(w) == LET n == ParseInt(w.AvailableSlots) IN IF n.nan THEN 0 ELSE n.n
        RECURSIVE Reduce(_)
        Reduce(k) == IF k = 0 THEN 0 ELSE Reduce(k - 1) + Slots(workerData[k])
        avgCapacity == Fraction(Reduce(Len(workerData)), Len(workerData))
        groups == {workerData[k].WorkerGroup : k \in {h \in 1..Len(workerData) :
                                                       Truthy(workerData[h].WorkerGroup)}}
        Long(t) == Truthy(t.Duration) /\ Gt(ParseInt(t.Duration), Finite(3))
        Concurrent(t) == Truthy(t.MaxConcurrent) /\ Gt(ParseInt(t.MaxConcurrent), Finite(1))
    IN  (IF Len(clientData) > 0 /\ AboveShare(highPriorityClients, Len(clientData))
         THEN <<Text("Consider adding priority-based allocation rules for high-priority clients (e.g., Client Priority Level >= 4).")>>
         ELSE <<>>)
        \o (IF /\ Len(workerData) > 0
               /\ Greater(Fraction(20, 1), avgCapacity)
               /\ Greater(avgCapacity, Fraction(0, 1))
            THEN <<Text("Workers have limited available slots - consider workload balancing rules based on AvailableSlots.")>>
            ELSE <<>>)
        \o (IF Len(workerData) > 0 /\ Cardinality(groups) > 1
            THEN <<Text("Multiple worker groups detected - consider group-based allocation rules (e.g., WorkerGroup 'Sales' can only do 'Sales' tasks).")>>
            ELSE <<>>)
        \o (IF Len(taskData) > 0 /\ Len(SelectSeq(taskData, Long)) > 0
            THEN <<Text("Long-duration tasks detected - consider phase-window constraints or sequential allocation.")>>
            ELSE <<>>)
        \o (IF Len(taskData) > 0 /\ Len(SelectSeq(taskData, Concurrent)) > 0
            THEN <<Text("Tasks with concurrent execution limits detected - optimize parallel processing (e.g., MaxConcurrent for specific tasks).")>>
            ELSE <<>>)

----------------------------------------------------------------------------
(* Rule templates: naturalLanguageToRule of src/lib/ai-helpers.ts *)

\* a test that is satisfied by one of the two keywords
IncludesBoth_Either(lowercaseDesc, first, second) ==
    Includes(lowercaseDesc, first) \/ Includes(lowercaseDesc, second)

\* lowercaseDesc.includes(first) && lowercaseDesc.includes(second)
IncludesBoth(lowercaseDesc, first, second) ==
    Includes(lowercaseDesc, first) /\ Includes(lowercaseDesc, second)

\* the returned object
naturalLanguageToRule(description) ==
    LET lowercaseDesc == ToLowerCase(description) IN
    IF IncludesBoth(lowercaseDesc, Text("high priority"), Text("first"))
    THEN [type |-> "priority",
          condition |-> Text("Client.PriorityLevel >= 4"),
          action |-> "allocate_first",
          description |-> Text("Allocate high priority clients first")]
    ELSE IF IncludesBoth(lowercaseDesc, Text("balance"), Text("load"))
    THEN [type |-> "load_balance",
          condition |-> Text("Worker.AvailableSlots > 0"),
          action |-> "distribute_evenly",
          description |-> Text("Balance workload across available workers")]
    ELSE IF IncludesBoth(lowercaseDesc, Text("skill"), Text("match"))
    THEN [type |-> "skill_match",
          condition |-> Text("Task.RequiredSkills IN Worker.Skills"),
          action |-> "assign_qualified_worker",
          description |-> Text("Match tasks to workers with required skills")]
    ELSE IF Includes(lowercaseDesc, Text("group")) \/ Includes(lowercaseDesc, Text("team"))
    THEN [type |-> "group_allocation",
          condition |-> Text("Worker.WorkerGroup = \"SpecificGroup\""),
          action |-> "assign_within_group",
          description |-> Text("Allocate tasks within specific worker groups")]
    ELSE [type |-> "custom",
          condition |-> Text("true"),
          action |-> "manual_review",
          description |-> description]

----------------------------------------------------------------------------
(* The call of the AI route: callOpenAI of src/lib/ai-helpers.ts *)

\* a classification that looks for the quota before the API key
Fallback_QuotaFirst(message) ==
    IF Includes(message, Text("quota")) \/ Includes(message, Text("billing"))
    THEN Text("OpenAI API quota exceeded or billing issue. Please check your OpenAI account. Original error: ")
         \o message
    ELSE IF Includes(message, Text("API key"))
    THEN Text("API Configuration Issue: Please check your OpenAI API key in .env.local file. Original error: ")
         \o message
    ELSE IF Includes(message, Text("rate limit"))
    THEN Text("Rate limit exceeded. Please wait a moment and try again. Original error: ")
         \o message
    ELSE Text("AI service encountered an issue: ") \o message
         \o Text(". Please check your internet connection or try again later.")

\* the catch block for an Error with this message: the returned text
Fallback(message) ==
    IF Includes(message, Text("API key"))
    THEN Text("API Configuration Issue: Please check your OpenAI API key in .env.local file. Original error: ")
         \o message
    ELSE IF Includes(message, Text("quota")) \/ Includes(message, Text("billing"))
    THEN Text("OpenAI API quota exceeded or billing issue. Please check your OpenAI account. Original error: ")
         \o message
    ELSE IF Includes(message, Text("rate limit"))
    THEN Text("Rate limit exceeded. Please wait a moment and try again. Original error: ")
         \o message
    ELSE Text("AI service encountered an issue: ") \o message
         \o Text(". Please check your internet connection or try again later.")

\* the try block: the value it returns (data.response as it is when it is truthy,
\* whatever its type: text holds the characters of a string, n the number), or the
\* message of the Error it throws.  fetch is the outcome of the request: rejected
\* with an Error, or a response with a status and a body that response.json()
\* parses or not
TryOpenAI(fetch) ==
    LET \* every value thrown here is an Error: a rejection of fetch, the
        \* SyntaxError or TypeError of the body, or new Error(errorMessage)
        Throw(message) == [threw |-> TRUE, isError |-> TRUE, message |-> message]
        Return(value) == [threw |-> FALSE, t |-> value.t, text |-> value.s, n |-> value.n]
        ok == fetch.status \in 200..299
        body == fetch.body
        NullMessage == Text("Cannot read properties of null (reading 'response')")
    IN  IF fetch.rejected THEN Throw(fetch.message)
        ELSE IF ~ok
        THEN \* response.json().catch(() => ({}))
             IF ~body.parsable
             THEN Throw(Text("AI API request failed with status: ") \o DigitsOf(fetch.status))
             ELSE IF body.json = Null THEN Throw(NullMessage)
             ELSE IF Truthy(body.json.response) THEN Throw(ToString(body.json.response))
             ELSE IF Truthy(body.json.details) THEN Throw(ToString(body.json.details))
             ELSE Throw(Text("AI API request failed with status: ") \o DigitsOf(fetch.status))
        ELSE IF ~body.parsable THEN Throw(body.message)
        ELSE IF body.json = Null THEN Throw(NullMessage)
        ELSE IF Truthy(body.json.response) THEN Return(body.json.response)
        ELSE Return(Str(Text("No response received from AI.")))

callOpenAI(fetch) ==
    LET attempt == TryOpenAI(fetch)
    IN  IF ~attempt.threw THEN attempt
        ELSE IF attempt.isError
        THEN [threw |-> FALSE, t |-> "string", text |-> Fallback(attempt.message), n |-> 0]
        ELSE [threw |-> FALSE, t |-> "string", n |-> 0,
              text |-> Text("I'm currently unable to connect to the AI service. Please check your configuration and try again.")]

----------------------------------------------------------------------------
(* The AI routes that callOpenAI reaches: what they answer when they fail *)

\* the OpenRouter route when process.env.OPENROUTER_API_KEY is not set: the
\* response as the fetch of callOpenAI receives it
OpenRouterKeyMissing ==
    [rejected |-> FALSE, message |-> <<>>, status |-> 500,
     body |-> [parsable |-> TRUE, message |-> <<>>,
               json |-> [error |-> Str(Text("OPENROUTER_API_KEY is missing")),
                         response |-> Undefined, details |-> Undefined]]]

\* the catch block of the OpenAI route for an Error with this message
OpenAIRouteCatch(message) ==
    LET Json(json, status) ==
            [rejected |-> FALSE, message |-> <<>>, status |-> status,
             body |-> [parsable |-> TRUE, message |-> <<>>, json |-> json]]
    IN  IF Includes(message, Text("API key"))
        THEN Json([error |-> Str(Text("OpenAI API key not configured properly")),
                   response |-> Undefined, details |-> Undefined], 500)
        ELSE IF Includes(message, Text("quota"))
        THEN Json([error |-> Str(Text("OpenAI API quota exceeded")),
                   response |-> Undefined, details |-> Undefined], 429)
        ELSE Json([error |-> Str(Text("Failed to process AI request")),
                   response |-> Undefined, details |-> Str(message)], 500)

----------------------------------------------------------------------------
(* Reference check: validators.reference of lib/validators.ts *)

\* validators.reference: <<>> stands for null; validValues holds JavaScript values
validators_reference(value, validValues, fieldName, rowIndex) ==
    LET \* validValues.slice(0, 3)
        first == SubSeq(validValues, 1, Min(3, Len(validValues)))
        \* .join(', '): an element that is null or undefined gives the empty string
        Element(v) == IF v.t \in {"undefined", "null"} THEN <<>> ELSE ToString(v)
        RECURSIVE Join(_)
        Join(list) ==
            IF list = <<>> THEN <<>>
            ELSE IF Len(list) = 1 THEN Element(list[1])
            ELSE Element(list[1]) \o Text(", ") \o Join(Tail(list))
    IN  IF ~Truthy(value) THEN <<>>
        ELSE IF ~\E i \in 1..Len(validValues) : validValues[i] = Str(ToString(value))
        THEN <<Issue(rowIndex, fieldName,
                     fieldName \o Text(" references invalid value: ") \o ToString(value),
                     "error",
                     Text("Use one of: ") \o Join(first)
                         \o (IF Len(validValues) > 3 THEN Text("...") ELSE <<>>))>>
        ELSE <<>>

----------------------------------------------------------------------------
(* Data quality suggestions: generateDataQualitySuggestions of src/lib/ai-helpers.ts *)

HasNonNumeric_CountsEmpty(rows, field) ==
    \E i \in 1..Len(rows) : IsNaN(ToNumber(rows[i][field]))

\* data.map(row => row[field]).filter(Boolean).some(val => isNaN(Number(val)));
\* the test !Array.isArray(val) of AvailableSlots holds for every cell, text or number
HasNonNumeric(rows, field) ==
    \E i \in 1..Len(rows) : Truthy(rows[i][field]) /\ IsNaN(ToNumber(rows[i][field]))

\* the returned array, or the TypeError of fields.forEach: criticalFields is an
\* object literal, so a dataType that names a member of Object.prototype finds
\* that member, which is truthy and has no forEach
generateDataQualitySuggestions(rows, kind) ==
    LET inherited ==
            {"constructor", "hasOwnProperty", "isPrototypeOf", "propertyIsEnumerable",
             "toLocaleString", "toString", "valueOf", "__proto__", "__defineGetter__",
             "__defineSetter__", "__lookupGetter__", "__lookupSetter__"}
        fields ==
            CASE kind = "clients" -> <<"ClientID", "ClientName", "PriorityLevel">>
              [] kind = "workers" -> <<"WorkerID", "WorkerName", "Skills", "AvailableSlots",
                                       "MaxLoadPerPhase">>
              [] kind = "tasks" -> <<"TaskID", "TaskName", "Duration", "RequiredSkills">>
              [] OTHER -> <<>>
        missingCount(field) ==
            Cardinality({i \in 1..Len(rows) :
                             \/ ~Truthy(rows[i][field])
                             \/ Trim(ToString(rows[i][field])) = <<>>})
        RECURSIVE MissingFrom(_)
        \* fields.forEach from the k-th field on
        MissingFrom(k) ==
            IF k > Len(fields) THEN <<>>
            ELSE (IF missingCount(fields[k]) > 0
                  THEN <<[issue |-> DigitsOf(missingCount(fields[k]))
                                        \o Text(" rows missing ") \o Text(fields[k]),
                          suggestion |-> Text("Add ") \o Text(fields[k])
                                             \o Text(" values or remove incomplete rows"),
                          autoFixAvailable |-> FALSE,
                          confidence |-> Fraction(9, 10)]>>
                  ELSE <<>>)
                 \o MissingFrom(k + 1)
        NonNumeric(field, issue, suggestion, confidence) ==
            IF HasNonNumeric(rows, field)
            THEN <<[issue |-> Text(field) \o Text(issue), suggestion |-> Text(suggestion),
                    autoFixAvailable |-> TRUE, confidence |-> confidence]>>
            ELSE <<>>
    IN  IF kind \in inherited THEN [threw |-> TRUE, suggestions |-> <<>>]
        ELSE [threw |-> FALSE,
              suggestions |->
                  MissingFrom(1)
                  \o (CASE kind = "clients" ->
                               NonNumeric("PriorityLevel", " column contains non-numeric values",
                                          "Convert priority levels to numbers (1-5 scale)",
                                          Fraction(8, 10))
                        [] kind = "workers" ->
                               NonNumeric("AvailableSlots",
                                          " column contains non-numeric values or invalid format",
                                          "Ensure available slots are numbers or a comma-separated list of phase numbers (e.g., \"1,3,5\")",
                                          Fraction(8, 10))
                               \o NonNumeric("MaxLoadPerPhase",
                                             " column contains non-numeric values",
                                             "Convert max load per phase to numbers",
                                             Fraction(7, 10))
                        [] kind = "tasks" ->
                               NonNumeric("Duration", " column contains non-numeric values",
                                          "Convert duration to numbers (e.g., number of phases)",
                                          Fraction(8, 10))
                               \o NonNumeric("MaxConcurrent",
                                             " column contains non-numeric values",
                                             "Convert max concurrent to numbers",
                                             Fraction(7, 10))
                        [] OTHER -> <<>>)]

----------------------------------------------------------------------------
(* Calls of the helper functions: input.call names the function *)

MaxStringLength == 3
MaxColumns == 2
MaxClients == 10
MaxWorkers == 2
MaxWords == 3
MaxValidValues == 4

\* the arguments of one call; records carry the fields that the call reads
InitCalls ==
    /\ pc = "start"
    /\ dataType = "none"
    /\ data = <<>>
    /\ query = <<>>
    /\ values = <<>>
    /\ grid = <<>>
    /\ result = NoResult
    /\ LET \* the first high clients have a high priority, the others a low one
           Clients(total, high, hi, lo) ==
               [k \in 1..total |-> [PriorityLevel |-> IF k <= high THEN hi ELSE lo]]
           ClientLists ==
               {Clients(total, Min(high, total), hi, lo) :
                    total \in 0..MaxClients, high \in 0..MaxClients,
                    hi \in {Str(Text("4")), Num(5)}, lo \in {Undefined, Str(Text("3"))}}
           WorkerRecords ==
               [AvailableSlots : {Undefined, Str(Text("1,3,5")), Str(Text("[1,3,5]")), Str(Text("25,26")),
                                  Num(3), Num(25)},
                WorkerGroup : {Undefined, Str(Text("A")), Str(Text("B"))}]
           \* descriptions made of keywords in either case
           Words == {Text("High Priority "), Text("first "), Text("BALANCE "), Text("load "), Text("skill "),
                     Text("Match "), Text("group "), Text("Team "), Text("x "), Text("balance the load "),
                     Text("Skill match ")}
           RECURSIVE Description(_)
           Description(words) ==
               IF words = <<>> THEN <<>> ELSE Head(words) \o Description(Tail(words))
           \* messages of upstream failures
           Messages == {Text("Failed to fetch"), Text("Incorrect API key provided"),
                        Text("You exceeded your current quota, check your API key"),
                        Text("billing hard limit reached"), Text("rate limit reached"),
                        Text("quota and rate limit"), Text("invalid api key")}
           Texts == {Undefined} \cup {Str(m) : m \in Messages}
           \* messages of the errors the OpenAI client throws inside the route
           UpstreamMessages ==
               {Text("401 Incorrect API key provided"),
                Text("429 You exceeded your current quota, please check your plan and billing details"),
                Text("Connection error.")}
           Bodies ==
               [parsable : {TRUE}, json : {Null}, message : {<<>>}]
                   \cup [parsable : {FALSE}, json : {Null},
                         message : {Text("Unexpected token < in JSON at position 0")}]
                   \cup [parsable : {TRUE}, message : {<<>>},
                         json : [response : Texts \cup {Num(5)}, details : Texts,
                                 error : {Undefined, Str(Text("OpenAI API quota exceeded"))}]]
           TaskRecords ==
               [Duration : {Str(Text("2")), Num(5)}, MaxConcurrent : {Undefined, Str(Text("2"))}]
           \* rows of the three kinds with the columns generateDataQualitySuggestions reads
           SuggestionRows(kind) ==
               CASE kind = "clients" ->
                        [ClientID : {Str(Text("C1"))}, ClientName : {Undefined, Str(Text("n"))},
                         PriorityLevel : {Undefined, Str(Text(" ")), Str(Text("abc")), Str(Text("5")),
                                          Str(Text("0x1f")), Num(0), Num(7)}]
                 [] kind = "workers" ->
                        [WorkerID : {Str(Text("W1"))}, WorkerName : {Str(Text("n"))}, Skills : {Str(Text("s"))},
                         AvailableSlots : {Undefined, Str(Text("1,3,5")), Str(Text("3")), Num(3)},
                         MaxLoadPerPhase : {Str(<<>>), Str(Text("x")), Num(2)}]
                 [] kind = "tasks" ->
                        [TaskID : {Str(Text("T1"))}, TaskName : {Str(Text("n"))},
                         Duration : {Null, Str(Text("two")), Str(Text("2")), Num(2)},
                         RequiredSkills : {Undefined, Str(Text("s"))},
                         MaxConcurrent : {Undefined, Str(Text("x")), Num(1)}]
                 [] OTHER -> {[Name |-> Undefined]}
       IN  \/ \E kind \in Kinds \cup {"rules", "constructor"} :
                  input \in [call : {"generateDataQualitySuggestions"},
                             data : SeqsUpTo(SuggestionRows(kind), MaxRows),
                             dataType : {kind}]
           \/ input \in [call : {"calculateSimilarity"},
                         str1 : SeqsUpTo({CharCode["a"], CharCode["b"]}, MaxStringLength),
                         str2 : SeqsUpTo({CharCode["a"], CharCode["b"]}, MaxStringLength)]
           \/ input \in [call : {"suggestColumnMapping"},
                         userColumns : SeqsUpTo(Columns, MaxColumns)]
           \/ input \in [call : {"suggestRules"},
                         clientData : ClientLists,
                         workerData : {<<>>},
                         taskData : SeqsUpTo(TaskRecords, 1)]
           \/ input \in [call : {"suggestRules"},
                         clientData : {<<>>, <<[PriorityLevel |-> Str(Text("5"))]>>},
                         workerData : SeqsUpTo(WorkerRecords, MaxWorkers),
                         taskData : {<<>>}]
           \/ input \in [call : {"callOpenAI"}, upstream : {<<>>},
                         fetch : [rejected : {TRUE}, message : Messages,
                                  status : {0}, body : {Null}]]
           \/ input \in [call : {"callOpenAI"}, upstream : {<<>>},
                         fetch : [rejected : {FALSE}, message : {<<>>},
                                  status : {200, 429, 500}, body : Bodies]]
           \* the request reaches a route, which fails with the upstream message
           \/ \E message \in UpstreamMessages :
                  input = [call |-> "callOpenAI", upstream |-> message,
                           fetch |-> OpenAIRouteCatch(message)]
           \/ input = [call |-> "callOpenAI", upstream |-> Text("OPENROUTER_API_KEY is missing"),
                       fetch |-> OpenRouterKeyMissing]
           \/ input \in [call : {"dataType"},
                         value : {Undefined, Num(0), Num(5), Str(Text("1.5")), Str(Text("0x1f")),
                                  Str(Text("1e3")), Str(Text("abc")), Str(Text("a@b.c")), Str(Text("a@b")),
                                  Str(Text("2024-02-29")), Str(Text("2023-02-29")),
                                  Str(Text("2024-01-15T10:30Z")), Str(Text("01/15/2024"))},
                         expectedType : {"number", "email", "date", "string"},
                         fieldName : {Text("PriorityLevel")},
                         rowIndex : {0},
                         hostRejects : BOOLEAN]
           \/ input \in [call : {"reference"},
                         value : {Undefined, Null, Str(<<>>), Str(Text("a")), Str(Text("d")), Num(0), Num(5)},
                         validValues : SeqsUpTo({Null, Str(Text("a")), Str(Text("b")),
                                                 Str(Text("5"))}, MaxValidValues),
                         fieldName : {Text("GroupTag")},
                         rowIndex : {0}]
           \/ \E words \in SeqsUpTo(Words, MaxWords) :
                  input = [call |-> "naturalLanguageToRule",
                           description |-> Description(words)]

CalculateSimilarity ==
    /\ pc = "start"
    /\ input.call = "calculateSimilarity"
    /\ result' = calculateSimilarity(input.str1, input.str2)
    /\ pc' = "done"
    /\ UNCHANGED <<dataType, data, query, values, input, grid>>

SuggestColumnMapping ==
    /\ pc = "start"
    /\ input.call = "suggestColumnMapping"
    /\ result' = suggestColumnMapping(input.userColumns)
    /\ pc' = "done"
    /\ UNCHANGED <<dataType, data, query, values, input, grid>>

SuggestRules ==
    /\ pc = "start"
    /\ input.call = "suggestRules"
    /\ result' = suggestRules(input.clientData, input.workerData, input.taskData)
    /\ pc' = "done"
    /\ UNCHANGED <<dataType, data, query, values, input, grid>>

NaturalLanguageToRule ==
    /\ pc = "start"
    /\ input.call = "naturalLanguageToRule"
    /\ result' = naturalLanguageToRule(input.description)
    /\ pc' = "done"
    /\ UNCHANGED <<dataType, data, query, values, input, grid>>

\* callOpenAI is called: it sends the request and waits at await fetch(...); the
\* promise it returned is pending
CallOpenAI ==
    /\ pc = "start"
    /\ input.call = "callOpenAI"
    /\ pc' = "await fetch"
    /\ UNCHANGED <<dataType, data, query, values, input, grid, result>>

\* the request settles: a rejection goes to the catch block, which returns; a
\* response makes the function wait at await response.json()
FetchSettled ==
    /\ pc = "await fetch"
    /\ IF input.fetch.rejected
       THEN result' = callOpenAI(input.fetch) /\ pc' = "done"
       ELSE result' = result /\ pc' = "await json"
    /\ UNCHANGED <<dataType, data, query, values, input, grid>>

\* the body is read (or not): the promise of callOpenAI is fulfilled
JsonSettled ==
    /\ pc = "await json"
    /\ result' = callOpenAI(input.fetch)
    /\ pc' = "done"
    /\ UNCHANGED <<dataType, data, query, values, input, grid>>

Reference ==
    /\ pc = "start"
    /\ input.call = "reference"
    /\ result' = validators_reference(input.value, input.validValues,
                                       input.fieldName, input.rowIndex)
    /\ pc' = "done"
    /\ UNCHANGED <<dataType, data, query, values, input, grid>>

\* validators.dataType is called; hostRejects is the answer of the host's
\* Date.parse on a text the standard does not decide
DataType ==
    /\ pc = "start"
    /\ input.call = "dataType"
    /\ result' = validators_dataType(input.value, input.expectedType, input.fieldName,
                                     input.rowIndex, input.hostRejects)
    /\ pc' = "done"
    /\ UNCHANGED <<dataType, data, query, values, input, grid>>

GenerateDataQualitySuggestions ==
    /\ pc = "start"
    /\ input.call = "generateDataQualitySuggestions"
    /\ result' = generateDataQualitySuggestions(input.data, input.dataType)
    /\ pc' = "done"
    /\ UNCHANGED <<dataType, data, query, values, input, grid>>

NextCalls ==
    \/ GenerateDataQualitySuggestions
    \/ CalculateSimilarity
    \/ SuggestColumnMapping
    \/ SuggestRules
    \/ NaturalLanguageToRule
    \/ CallOpenAI
    \/ FetchSettled
    \/ JsonSettled
    \/ Reference
    \/ DataType

SpecCalls == InitCalls /\ [][NextCalls]_vars

\* the call of function has returned
Returned(function) == pc = "done" /\ input.call = function

----------------------------------------------------------------------------
(* Properties of the similarity *)

\* the edit distance by its definition on the first characters
RECURSIVE Levenshtein(_, _)
Levenshtein(a, b) ==
    IF a = <<>> THEN Len(b)
    ELSE IF b = <<>> THEN Len(a)
    ELSE IF Head(a) = Head(b) THEN Levenshtein(Tail(a), Tail(b))
    ELSE 1 + Min(Min(Levenshtein(Tail(a), b), Levenshtein(a, Tail(b))),
                 Levenshtein(Tail(a), Tail(b)))

\* C13: the similarity of a string with itself is 1, the empty string
\* included.
SimilarityOfEqualStringsIsOne ==
    (Returned("calculateSimilarity") /\ input.str1 = input.str2) =>
        (~result.nan /\ result.num = result.den)

\* C14: for all strings a and b, the similarity of a and b is a number that
\* equals (===) the similarity of b and a, and that equals
\* 1 - levenshtein(a, b) / max(len(a), len(b)).  NaN equals no number.
SimilarityIsSymmetricLevenshtein ==
    Returned("calculateSimilarity") =>
        LET a == input.str1
            b == input.str2
            longest == Max(Len(a), Len(b))
            reversed == calculateSimilarity(b, a)
        IN  /\ ~result.nan
            /\ ~reversed.nan
            /\ result.num * reversed.den = reversed.num * result.den
            /\ result.num * longest = (longest - Levenshtein(a, b)) * result.den

----------------------------------------------------------------------------
(* Properties of the column mapping *)

\* the similarity of each header of the runs to each alias variant
ScoreOf ==
    [userCol \in Columns |->
        [e \in 1..Len(expectedMappings) |->
            [v \in 1..Len(expectedMappings[e].variants) |->
                calculateSimilarity(
                    RemoveSeparators(ToLowerCase(userCol)),
                    RemoveSeparators(ToLowerCase(expectedMappings[e].variants[v])))]]]

\* the alias variants as <<entry, variant>> positions
Variants ==
    UNION {{<<e, v>> : v \in 1..Len(expectedMappings[e].variants)} :
               e \in 1..Len(expectedMappings)}

\* position p comes before position q in the iteration over the alias table
Before(p, q) == p[1] < q[1] \/ (p[1] = q[1] /\ p[2] < q[2])

\* some alias variant is more similar to the header than 0.5
BestAboveHalf(userCol) ==
    \E p \in Variants : Greater(ScoreOf[userCol][p[1]][p[2]], Fraction(1, 2))

\* C11: the mappings are, in the order of the headers, one for each header
\* whose best similarity is strictly above 0.5 and none for the other headers;
\* every confidence is above 0.5 and at most 1.
MappingOnlyAboveThreshold ==
    Returned("suggestColumnMapping") =>
        LET kept == SelectSeq(input.userColumns, BestAboveHalf)
        IN  /\ Len(result) = Len(kept)
            /\ \A i \in 1..Len(result) :
                   /\ result[i].original = kept[i]
                   /\ ~result[i].confidence.nan
                   /\ 2 * result[i].confidence.num > result[i].confidence.den
                   /\ result[i].confidence.num <= result[i].confidence.den

\* a header below the threshold is dropped and a misspelt one is mapped
MappingDropsAndKeeps ==
    /\ Returned("suggestColumnMapping")
    /\ input.userColumns = <<Text("it"), Text("Priorty")>>
    /\ Len(result) = 1
    /\ result[1].original = Text("Priorty")
    /\ result[1].confidence.num < result[1].confidence.den

\* C12: the suggested field of a mapping owns the variant most similar to the
\* normalized header, the earliest such variant of the alias table when
\* several are equally similar; the header "Client Id" maps to CLIENT_ID.
MappingPicksFirstBest ==
    Returned("suggestColumnMapping") =>
        /\ \A i \in 1..Len(result) :
               LET score == ScoreOf[result[i].original]
               IN  \E p \in Variants :
                       /\ result[i].suggested = expectedMappings[p[1]].expected
                       /\ result[i].confidence = score[p[1]][p[2]]
                       /\ \A q \in Variants :
                              /\ ~Greater(score[q[1]][q[2]], score[p[1]][p[2]])
                              /\ Before(q, p) => Greater(score[p[1]][p[2]], score[q[1]][q[2]])
        /\ \A k \in 1..Len(input.userColumns) :
               input.userColumns[k] = Text("Client Id") =>
                   \E i \in 1..Len(result) :
                       /\ result[i].original = Text("Client Id")
                       /\ result[i].suggested = Text("CLIENT_ID")

\* "id" is an alias of three fields, the first of them is suggested
MappingOfSharedAlias ==
    /\ Returned("suggestColumnMapping")
    /\ input.userColumns = <<Text("Client Id"), Text("id")>>
    /\ Len(result) = 2
    /\ result[2].suggested = Text("CLIENT_ID")

\* C15: mapping the suggested canonical names again maps each of them to
\* itself with confidence 1, and mapping again the headers that got a mapping
\* gives the same mappings in the same order: what a header is mapped to
\* depends neither on its position nor on the headers around it.
MappingIsIdempotent ==
    Returned("suggestColumnMapping") =>
        LET again == suggestColumnMapping([i \in 1..Len(result) |-> result[i].suggested])
            mapped == [i \in 1..Len(result) |-> result[i].original]
        IN  /\ Len(again) = Len(result)
            /\ \A i \in 1..Len(again) :
                   /\ again[i].original = result[i].suggested
                   /\ again[i].suggested = result[i].suggested
                   /\ ~again[i].confidence.nan
                   /\ again[i].confidence.num = again[i].confidence.den
            /\ \A i \in 1..Len(mapped) :
                   \E k \in 1..Len(input.userColumns) : input.userColumns[k] = mapped[i]
            /\ suggestColumnMapping(mapped) = result

\* a user spelling and a canonical name, both mapped
MappingOfUserSpelling ==
    /\ Returned("suggestColumnMapping")
    /\ input.userColumns = <<Text("Priorty"), Text("WORKER_GROUP")>>
    /\ Len(result) = 2
    /\ result[1].suggested = Text("PRIORITY_LEVEL")
    /\ result[2].suggested = Text("WORKER_GROUP")

----------------------------------------------------------------------------
(* Properties of the rule suggestions *)

\* the sequence seq has the element x
Has(seq, x) == \E i \in 1..Len(seq) : seq[i] = x

PrioritySuggestion ==
    Text("Consider adding priority-based allocation rules for high-priority clients (e.g., Client Priority Level >= 4).")

BalancingSuggestion ==
    Text("Workers have limited available slots - consider workload balancing rules based on AvailableSlots.")

\* a client whose PriorityLevel is a number that is at least 4
HighPriority(c) == Geq(ToNumber(c.PriorityLevel), Finite(4))

\* C16: the priority-allocation suggestion is included exactly when there are
\* clients and those with PriorityLevel >= 4 are strictly more than 0.3 of them
\* (4 of 10: included; 3 of 10 and 2 of 10: not).
PrioritySuggestionAboveShare ==
    Returned("suggestRules") =>
        LET clients == input.clientData
            high == Count(clients, HighPriority)
        IN  /\ Has(result, PrioritySuggestion)
                <=> (Len(clients) > 0 /\ 10 * high > 3 * Len(clients))
            /\ (Len(clients) = 10 /\ high = 4) => Has(result, PrioritySuggestion)
            /\ (Len(clients) = 10 /\ high \in {2, 3}) => ~Has(result, PrioritySuggestion)

\* four clients of ten with a high priority, and the suggestion
PrioritySuggestionForFourOfTen ==
    /\ Returned("suggestRules")
    /\ Len(input.clientData) = 10
    /\ Count(input.clientData, HighPriority) = 4
    /\ Has(result, PrioritySuggestion)

\* the number of slots that a worker has available: the entries of the list
\* in AvailableSlots ("1,3,5" or "[1,3,5]")
SlotCount(w) ==
    IF ~Truthy(w.AvailableSlots) THEN 0
    ELSE LET s == ToString(w.AvailableSlots)
             Inner(c) == c \notin {CharCode["["], CharCode["]"]}
         IN  Len(Split(SelectSeq(s, Inner), CharCode[","]))

RECURSIVE SlotCountSum(_)
SlotCountSum(workers) ==
    IF workers = <<>> THEN 0 ELSE SlotCount(Head(workers)) + SlotCountSum(Tail(workers))

\* C17: the load-balancing suggestion is included exactly when there are
\* workers and the mean of their numbers of available slots is strictly
\* between 0 and 20 (stated for workers whose AvailableSlots is a list in
\* text form or absent).
BalancingSuggestionOnMeanSlotCount ==
    (/\ Returned("suggestRules")
     /\ \A k \in 1..Len(input.workerData) : input.workerData[k].AvailableSlots.t # "number")
    => LET workers == input.workerData
           total == SlotCountSum(workers)
       IN  Has(result, BalancingSuggestion)
               <=> (Len(workers) > 0 /\ 0 < total /\ total < 20 * Len(workers))

----------------------------------------------------------------------------
(* Properties of the rule templates *)

\* C18: the template is chosen by the keywords of the description, whatever
\* their case, in a fixed order: priority-first for 'high priority' and
\* 'first', else load-balance for 'balance' and 'load', else skill-match for
\* 'skill' and 'match', else group-allocation for 'group' or 'team', else
\* manual review with the description as it was given; the type is always one
\* of these five.
RuleTemplateByPrecedence ==
    Returned("naturalLanguageToRule") =>
        LET Contains(keyword) == Includes(ToLowerCase(input.description), keyword)
            template ==
                CASE Contains(Text("high priority")) /\ Contains(Text("first")) -> "allocate_first"
                  [] ~(Contains(Text("high priority")) /\ Contains(Text("first")))
                     /\ Contains(Text("balance")) /\ Contains(Text("load")) -> "distribute_evenly"
                  [] ~(Contains(Text("high priority")) /\ Contains(Text("first")))
                     /\ ~(Contains(Text("balance")) /\ Contains(Text("load")))
                     /\ Contains(Text("skill")) /\ Contains(Text("match")) -> "assign_qualified_worker"
                  [] ~(Contains(Text("high priority")) /\ Contains(Text("first")))
                     /\ ~(Contains(Text("balance")) /\ Contains(Text("load")))
                     /\ ~(Contains(Text("skill")) /\ Contains(Text("match")))
                     /\ (Contains(Text("group")) \/ Contains(Text("team"))) -> "assign_within_group"
                  [] OTHER -> "manual_review"
            TypeOf(action) ==
                CASE action = "allocate_first" -> "priority"
                  [] action = "distribute_evenly" -> "load_balance"
                  [] action = "assign_qualified_worker" -> "skill_match"
                  [] action = "assign_within_group" -> "group_allocation"
                  [] OTHER -> "custom"
        IN  /\ result.action = template
            /\ result.type = TypeOf(template)
            /\ result.type \in {"priority", "load_balance", "skill_match",
                                "group_allocation", "custom"}
            /\ template = "manual_review" => result.description = input.description

\* keywords of two templates in upper and lower case: the earlier one wins
RuleTemplateOfMixedKeywords ==
    /\ Returned("naturalLanguageToRule")
    /\ input.description = Text("BALANCE load Team ")
    /\ result.type = "load_balance"

----------------------------------------------------------------------------
(* Properties of the call of the AI route *)

\* the request failed: network error, non-OK response or unparsable body
Failed(fetch) ==
    fetch.rejected \/ fetch.status \notin 200..299 \/ ~fetch.body.parsable

ConfigurationText ==
    Text("API Configuration Issue: Please check your OpenAI API key in .env.local file. Original error: ")

QuotaText ==
    Text("OpenAI API quota exceeded or billing issue. Please check your OpenAI account. Original error: ")

RateLimitText ==
    Text("Rate limit exceeded. Please wait a moment and try again. Original error: ")

GenericText == Text("AI service encountered an issue: ")

\* C19: the call always returns a string; after a failure the string is
\* chosen by the text of the failure message: the configuration text when it
\* contains 'API key', else the quota / billing text when it contains 'quota'
\* or 'billing', else the rate limit text when it contains 'rate limit', else
\* the generic text.
FailureIsClassified ==
    Returned("callOpenAI") =>
        /\ ~result.threw
        /\ Failed(input.fetch) =>
               LET attempt == TryOpenAI(input.fetch)
                   Contains(text) == Includes(attempt.message, text)
                   category ==
                       CASE Contains(Text("API key")) -> ConfigurationText
                         [] ~Contains(Text("API key"))
                            /\ (Contains(Text("quota")) \/ Contains(Text("billing"))) -> QuotaText
                         [] ~Contains(Text("API key")) /\ ~Contains(Text("quota")) /\ ~Contains(Text("billing"))
                            /\ Contains(Text("rate limit")) -> RateLimitText
                         [] OTHER -> GenericText
               IN  /\ attempt.threw
                   /\ StartsWith(result.text, category \o attempt.message)

\* a failure message with the words of two categories: the first one is chosen
FailureWithTwoKeywords ==
    /\ Returned("callOpenAI")
    /\ ~input.fetch.rejected
    /\ input.fetch.status = 429
    /\ input.fetch.body.parsable
    /\ input.fetch.body.json # Null
    /\ input.fetch.body.json.response = Undefined
    /\ input.fetch.body.json.details = Str(Text("You exceeded your current quota, check your API key"))
    /\ StartsWith(result.text, ConfigurationText)

----------------------------------------------------------------------------
(* Properties of the reference check *)

\* C20: no issue when the value is absent or one of the allowed values;
\* exactly one error when it is present and not allowed, whose suggestion
\* lists the first min(3, n) allowed values and ends with an ellipsis exactly
\* when there are more than 3 allowed values.
ReferenceErrorIffNotAllowed ==
    Returned("reference") =>
        LET value == input.value
            allowed == input.validValues
            absent == value.t \in {"undefined", "null"} \/ value = Str(<<>>)
            member == \E i \in 1..Len(allowed) : allowed[i] = Str(ToString(value))
            \* an allowed value as join shows it: null and undefined as nothing
            Listed(k) ==
                (IF k = 1 THEN <<>> ELSE Text(", "))
                \o (IF allowed[k].t \in {"undefined", "null"} THEN <<>>
                    ELSE ToString(allowed[k]))
            shown ==
                CASE Len(allowed) = 0 -> <<>>
                  [] Len(allowed) = 1 -> Listed(1)
                  [] Len(allowed) = 2 -> Listed(1) \o Listed(2)
                  [] OTHER -> Listed(1) \o Listed(2) \o Listed(3)
        IN  IF absent \/ member THEN result = <<>>
            ELSE /\ Len(result) = 1
                 /\ result[1].severity = "error"
                 /\ result[1].suggestion
                        = Text("Use one of: ") \o shown
                              \o (IF Len(allowed) > 3 THEN Text("...") ELSE <<>>)

----------------------------------------------------------------------------
(* Properties of single patterns of the query filter *)

\* the digits that follow 'priority' (and an optional 'level') at position i of
\* the query, white space skipped; empty when none follow
DigitsAfterPriority(q, i) ==
    IF StartsWith(SubSeq(q, i, Len(q)), Text("priority"))
    THEN LET rest == TrimStart(SubSeq(q, i + Len(Text("priority")), Len(q)))
             number == IF StartsWith(rest, Text("level"))
                       THEN TrimStart(SubSeq(rest, Len(Text("level")) + 1, Len(rest)))
                       ELSE rest
         IN DigitPrefix(number)
    ELSE <<>>

\* the threshold a priority query asks for: the first number that follows
\* 'priority', or 4 when the query gives none
RequestedPriority(q) ==
    LET given == {i \in 1..Len(q) : DigitsAfterPriority(q, i) # <<>>} IN
    IF given = {} THEN 4
    ELSE DigitsToNat(DigitsAfterPriority(q, CHOOSE i \in given : \A h \in given : i <= h))

\* C21: a client query that contains 'priority' and matches no other client
\* pattern returns exactly the clients whose PriorityLevel, parsed as an integer,
\* is at least the number that follows 'priority' (or 'priority level'), and at
\* least 4 when the query gives no number.
PriorityQuerySelectsAtLeast ==
    (/\ pc = "done"
     /\ dataType = "clients"
     /\ Includes(ToLowerCase(query), Text("priority"))
     /\ MatchingPatterns("clients", ToLowerCase(query)) = {1}) =>
        LET n == RequestedPriority(ToLowerCase(query))
            AtLeast(item) == Geq(ParseInt(item.PriorityLevel), Finite(n))
        IN /\ ~result.threw
           /\ result.items = SelectSeq(data, AtLeast)

\* whether the task is one the phase pattern decides: its PreferredPhases is not
\* empty and the duration pattern has not selected it
DecidedByPhase(q, item) ==
    /\ Truthy(item.PreferredPhases)
    /\ Rule("tasks", 1, q, item) # "true"

\* whether one of the comma-separated tokens that follow 'phase' in the query is
\* a substring of the text of PreferredPhases
SomeTokenInPhases(q, item) ==
    LET tokens == Split(Match(PhasesRe, q).group, CharCode[","]) IN
    \E i \in 1..Len(tokens) : Includes(ToString(item.PreferredPhases), Trim(tokens[i]))

\* C22: for a task query with 'phase' and a list of numbers or ranges, a task
\* with a non-empty PreferredPhases that the duration pattern did not select is
\* kept exactly when one of the query tokens is a substring of the text of its
\* PreferredPhases; ranges are not evaluated and the skill and max-concurrent
\* patterns are not consulted for it.
PhaseQueryKeepsBySubstring ==
    (/\ pc = "done"
     /\ dataType = "tasks"
     /\ ~result.threw
     /\ PatternMatches("tasks", 2, ToLowerCase(query))) =>
        LET q == ToLowerCase(query)
            Decided(item) == DecidedByPhase(q, item)
            Token(item) == SomeTokenInPhases(q, item)
        IN SelectSeq(result.items, Decided) = SelectSeq(SelectSeq(data, Decided), Token)

\* 'phase 2 parallel 1' over a task of phases '1-3' with MaxConcurrent '1' and a
\* task of phases '[2,4,5]' returns the second one only
PhaseQueryIgnoresRangeAndLaterPatterns ==
    /\ pc = "done"
    /\ dataType = "tasks"
    /\ query = Text("phase 2 parallel 1")
    /\ Len(data) = 2
    /\ data[1].PreferredPhases = Str(Text("1-3"))
    /\ data[1].MaxConcurrent = Str(Text("1"))
    /\ data[2].PreferredPhases = Str(Text("[2,4,5]"))
    /\ result.items = <<data[2]>>

\* C28: for a worker query with 'available' or 'slots' and 'phase N' that
\* matches no other worker pattern, every returned worker's AvailableSlots
\* contains N: a worker that has slots, but not phase N, is not returned.
AvailableInPhaseOnly ==
    (/\ pc = "done"
     /\ dataType = "workers"
     /\ ~result.threw
     /\ Match(PhaseRe, ToLowerCase(query)).found
     /\ MatchingPatterns("workers", ToLowerCase(query)) = {2}) =>
        LET phase == Match(PhaseRe, ToLowerCase(query)).group IN
        \A i \in 1..Len(result.items) :
            Includes(ToString(result.items[i].AvailableSlots), phase)

----------------------------------------------------------------------------
(* Properties of the order and the completeness of the validation reports *)

IsDuplicateIssue(e) == StartsWith(e.error, Text("Duplicate "))

IndexIn(seq, x) == CHOOSE i \in 1..Len(seq) : seq[i] = x

\* the place of an issue in the checks of its row: the required fields in their
\* declared order, then the numeric fields, then the range check
StepOf(e, kind) ==
    LET Names(fields) == [k \in 1..Len(fields) |-> Text(fields[k])] IN
    IF e.error = e.column \o Text(" is required")
    THEN IndexIn(Names(RequiredFieldsOf(kind)), e.column)
    ELSE IF e.error = e.column \o Text(" must be a number")
    THEN Len(RequiredFieldsOf(kind)) + IndexIn(Names(NumericFieldsOf(kind)), e.column)
    ELSE Len(RequiredFieldsOf(kind)) + Len(NumericFieldsOf(kind)) + 1

\* whether issue a is discovered before issue b: row issues by row and step,
\* then the duplicate errors by row
DiscoveredBefore(a, b, kind) ==
    IF IsDuplicateIssue(a) # IsDuplicateIssue(b) THEN IsDuplicateIssue(b)
    ELSE IF a.row # b.row THEN a.row < b.row
    ELSE ~IsDuplicateIssue(a) /\ StepOf(a, kind) < StepOf(b, kind)

InDiscoveryOrder(issues, kind) ==
    \A i, j \in 1..Len(issues) : i < j => DiscoveredBefore(issues[i], issues[j], kind)

RECURSIVE IsSubsequence(_, _)
IsSubsequence(sub, seq) ==
    IF sub = <<>> THEN TRUE
    ELSE IF seq = <<>> THEN FALSE
    ELSE IF Head(sub) = Head(seq) THEN IsSubsequence(Tail(sub), Tail(seq))
    ELSE IsSubsequence(sub, Tail(seq))

\* the issue list of a validate function before it is split by severity
IssuesOf(kind, rows) ==
    CASE kind = "clients" -> ClientIssues(rows)
      [] kind = "workers" -> WorkerIssues(rows)
      [] kind = "tasks" -> TaskIssues(rows)

\* C24: errors and warnings each list their issues in discovery order: the row
\* issues by ascending row (required fields in declared order, then type issues,
\* then range issues), then the duplicate errors by ascending row; each is a
\* subsequence of the one discovery sequence and together they hold every issue
\* exactly once.
DiscoveryOrderPreserved ==
    pc = "done" =>
        LET issues == IssuesOf(dataType, data) IN
        /\ InDiscoveryOrder(issues, dataType)
        /\ InDiscoveryOrder(result.errors, dataType)
        /\ InDiscoveryOrder(result.warnings, dataType)
        /\ IsSubsequence(result.errors, issues)
        /\ IsSubsequence(result.warnings, issues)
        /\ Len(result.errors) + Len(result.warnings) = Len(issues)
        /\ \A k \in 1..Len(issues) :
               LET IsIt(e) == e = issues[k] IN
               Count(result.errors, IsIt) + Count(result.warnings, IsIt) = 1

\* a client report whose errors are a required error of the first row, a type
\* error of the second row and a duplicate error, beside a range warning of the
\* first row
ReportInDiscoveryOrder ==
    /\ pc = "done"
    /\ dataType = "clients"
    /\ Len(result.errors) = 3
    /\ IsRequiredIssue(result.errors[1], 1, "ClientName")
    /\ IsTypeIssue(result.errors[2], 2, "PriorityLevel")
    /\ IsDuplicateIssue(result.errors[3])
    /\ Len(result.warnings) = 1
    /\ IsRangeIssue(result.warnings[1], 1, "PriorityLevel")

IdFieldOf(kind) ==
    CASE kind = "clients" -> "ClientID"
      [] kind = "workers" -> "WorkerID"
      [] kind = "tasks" -> "TaskID"

\* the issues that the checks of the checklist of kind yield for the cells of
\* row i, each check taken on its own: validators.required on every required
\* field, validators.dataType on every numeric field and validators.range on
\* every range field (of a worker: when the cell is truthy)
ChecksOfRow(kind, rows, i) ==
    UNION {Range(validators_required(rows[i][f], Text(f), i - 1)) :
               f \in Range(RequiredFieldsOf(kind))}
    \cup UNION {Range(validators_dataType(rows[i][f], "number", Text(f), i - 1, FALSE)) :
                    f \in Range(NumericFieldsOf(kind))}
    \cup UNION {Range(validators_range(rows[i][f], RangeMin, RangeMax, Text(f), i - 1)) :
                    f \in {g \in Range(RangeFieldsOf(kind)) :
                               kind = "clients" \/ Truthy(rows[i][g])}}

\* C25: validation does not short-circuit: whatever failed in earlier rows or in
\* other fields of the row, the report holds, exactly once, every issue that a
\* check of the checklist yields for a cell of a row and every error of the
\* duplicate check of the identifier column, and it holds nothing else.
NoShortCircuit ==
    pc = "done" =>
        LET issues == result.errors \o result.warnings
            Times(e) == Cardinality({k \in 1..Len(issues) : issues[k] = e})
            duplicates == Range(validators_duplicates(Column(data, IdFieldOf(dataType)),
                                                      Text(IdFieldOf(dataType))))
            checks == UNION {ChecksOfRow(dataType, data, i) : i \in 1..Len(data)}
        IN  /\ \A e \in checks \cup duplicates : Times(e) = 1
            /\ \A k \in 1..Len(issues) : issues[k] \in checks \cup duplicates

\* a second client row without a name still got the type error of its
\* PriorityLevel and the duplicate error of its ClientID, after a first row that
\* had failed too
RowCheckedAfterFailures ==
    /\ pc = "done"
    /\ dataType = "clients"
    /\ Len(data) = 2
    /\ EmptyCell(data[1].ClientName)
    /\ EmptyCell(data[2].ClientName)
    /\ \E k \in 1..Len(result.errors) : IsRequiredIssue(result.errors[k], 1, "ClientName")
    /\ \E k \in 1..Len(result.errors) : IsRequiredIssue(result.errors[k], 2, "ClientName")
    /\ \E k \in 1..Len(result.errors) : IsTypeIssue(result.errors[k], 2, "PriorityLevel")
    /\ \E k \in 1..Len(result.errors) :
           IsDuplicateIssue(result.errors[k]) /\ result.errors[k].row = 1

\* C26: validateClientData emits a range warning for PriorityLevel only for rows
\* that hold a numeric PriorityLevel: a row whose PriorityLevel is absent, null,
\* empty or only white space gets the required error and no range warning.
RangeWarningNeedsNumber ==
    (pc = "done" /\ dataType = "clients") =>
        \A i \in 1..Len(data) :
            LET v == data[i].PriorityLevel
                IsRange(e) == IsRangeIssue(e, i, "PriorityLevel")
                IsRequired(e) == IsRequiredIssue(e, i, "PriorityLevel")
            IN /\ Count(result.warnings, IsRange) > 0 => NumericCell(v)
               /\ EmptyCell(v) =>
                      /\ Count(result.errors, IsRequired) = 1
                      /\ Count(result.warnings, IsRange) = 0

\* a worker row that is complete apart from AvailableSlots
CompleteWorker(row) ==
    /\ \A k \in 1..Len(WorkerRequiredFields) : ~EmptyCell(row[WorkerRequiredFields[k]])
    /\ EmptyCell(row.MaxLoadPerPhase) \/ NumericCell(row.MaxLoadPerPhase)
    /\ EmptyCell(row.QualificationLevel) \/ NumericCell(row.QualificationLevel)

\* C27: validateWorkerData reports no error for a worker whose AvailableSlots is
\* the list "1,3,5", and a list of such workers that is complete and has unique
\* identifiers is valid.
SlotListIsAccepted ==
    (pc = "done" /\ dataType = "workers") =>
        /\ \A i \in 1..Len(data) :
               LET OnSlots(e) == e.row = i - 1 /\ e.column = Text("AvailableSlots") IN
               data[i].AvailableSlots = Str(Text("1,3,5")) => Count(result.errors, OnSlots) = 0
        /\ (/\ \A i \in 1..Len(data) :
                   data[i].AvailableSlots = Str(Text("1,3,5")) /\ CompleteWorker(data[i])
            /\ \A i, j \in 1..Len(data) :
                   i # j => IdText(data[i].WorkerID) # IdText(data[j].WorkerID))
               => result.isValid

----------------------------------------------------------------------------
(* Properties of the data quality suggestions *)

\* the columns that generateDataQualitySuggestions checks for numbers
CheckedNumericFieldsOf(kind) ==
    CASE kind = "clients" -> {"PriorityLevel"}
      [] kind = "workers" -> {"AvailableSlots", "MaxLoadPerPhase"}
      [] kind = "tasks" -> {"Duration", "MaxConcurrent"}
      [] OTHER -> {}

\* the non-numeric suggestion of a column, and the missing-value suggestion
IsNonNumericSuggestion(s, field) ==
    \/ s.issue = Text(field) \o Text(" column contains non-numeric values")
    \/ s.issue = Text(field) \o Text(" column contains non-numeric values or invalid format")

IsMissingSuggestion(s) == Includes(s.issue, Text(" rows missing "))

\* C23: generateDataQualitySuggestions emits the non-numeric suggestion of a
\* numeric column (clients: PriorityLevel; workers: AvailableSlots,
\* MaxLoadPerPhase; tasks: Duration, MaxConcurrent) exactly when a non-empty value
\* of the column does not parse as a number, and every suggestion carries the
\* confidence of its check: 0.9 for a missing-value check, 0.8 or 0.7 for a
\* non-numeric check.
NonNumericSuggestionIffUnparsable ==
    Returned("generateDataQualitySuggestions") =>
        LET emitted == result.suggestions IN
        /\ \A field \in CheckedNumericFieldsOf(input.dataType) :
               LET IsIt(s) == IsNonNumericSuggestion(s, field)
                   unparsable ==
                       \E i \in 1..Len(input.data) :
                           /\ ~EmptyCell(input.data[i][field])
                           /\ IsNaN(ToNumber(input.data[i][field]))
               IN Count(emitted, IsIt) = (IF unparsable THEN 1 ELSE 0)
        /\ \A k \in 1..Len(emitted) :
               IF IsMissingSuggestion(emitted[k])
               THEN emitted[k].confidence = Fraction(9, 10)
               ELSE /\ \E field \in CheckedNumericFieldsOf(input.dataType) :
                           IsNonNumericSuggestion(emitted[k], field)
                    /\ emitted[k].confidence
                           = (IF \E field \in {"MaxLoadPerPhase", "MaxConcurrent"} :
                                     IsNonNumericSuggestion(emitted[k], field)
                              THEN Fraction(7, 10) ELSE Fraction(8, 10))

\* workers with an empty and an unparsable MaxLoadPerPhase and a slot list: one
\* suggestion of each confidence
SuggestionsOfEachConfidence ==
    /\ Returned("generateDataQualitySuggestions")
    /\ input.dataType = "workers"
    /\ Len(result.suggestions) = 3
    /\ result.suggestions[1].confidence = Fraction(9, 10)
    /\ IsNonNumericSuggestion(result.suggestions[2], "AvailableSlots")
    /\ result.suggestions[2].confidence = Fraction(8, 10)
    /\ IsNonNumericSuggestion(result.suggestions[3], "MaxLoadPerPhase")
    /\ result.suggestions[3].confidence = Fraction(7, 10)

----------------------------------------------------------------------------
(* Properties of callOpenAI behind the AI routes *)

\* the route failed because the API key is missing or was rejected
KeyFailure(upstream) == Includes(upstream, Text("API key")) \/ Includes(upstream, Text("API_KEY"))

\* the route failed because the quota is exceeded
QuotaFailure(upstream) == ~KeyFailure(upstream) /\ Includes(upstream, Text("quota"))

\* C30: when the AI route fails because the API key is missing or rejected, the
\* string callOpenAI returns is the configuration text, and when it fails because
\* the quota is exceeded, the quota / billing text: never the generic text.
RouteFailureKeepsCategory ==
    (Returned("callOpenAI") /\ input.upstream # <<>>) =>
        /\ KeyFailure(input.upstream) => StartsWith(result.text, ConfigurationText)
        /\ QuotaFailure(input.upstream) => StartsWith(result.text, QuotaText)

----------------------------------------------------------------------------
(* The data grid: components/DataGrid.tsx while it is mounted.  data holds the *)
(* props clients, workers and tasks, which onDataUpdate replaces; grid holds   *)
(* the useState values and, in refs, the identity of the object at each        *)
(* position of each prop (aiFilteredData is compared by object reference).     *)
(* An identity is a number that only serves to tell objects apart: the object  *)
(* a save creates gets the least number that no object of the props or of      *)
(* aiFilteredData has.                                                         *)
(* A value of aiInsightResponse is a JavaScript value: a string, or whatever   *)
(* callOpenAI resolved to.                                                     *)

MaxGridRows == 2


\* getColumns(type): the column keys
getColumns(type) ==
    CASE type = "clients" ->
             <<"ClientID", "ClientName", "PriorityLevel", "RequestedTaskIDs", "GroupTag",
               "AttributesJSON">>
      [] type = "workers" ->
             <<"WorkerID", "WorkerName", "Skills", "AvailableSlots", "MaxLoadPerPhase",
               "WorkerGroup", "QualificationLevel">>
      [] type = "tasks" ->
             <<"TaskID", "TaskName", "Category", "Duration", "RequiredSkills",
               "PreferredPhases", "MaxConcurrent">>
      [] OTHER -> <<>>

\* getCurrentData()
getCurrentData(props, g) == props[g.activeTab]

\* the component renders its tabs, boxes and table only when the current tab has
\* data; otherwise it returns the "No Data Uploaded" view
Rendered(props, g) == Len(getCurrentData(props, g)) > 0

\* clearAiFilter
clearAiFilter(g) ==
    [g EXCEPT !.isAiFilterActive = FALSE, !.aiFilteredData = {},
              !.naturalQueryForFilter = <<>>, !.aiInsightResponse = Str(<<>>)]

\* the positions in getCurrentData() of the rows of the table, top to bottom
displayedData(props, g) ==
    LET rows == getCurrentData(props, g)
        Shown(i) ==
            IF g.isAiFilterActive THEN g.refs[g.activeTab][i] \in g.aiFilteredData
            ELSE \/ g.searchQuery = <<>>
                 \/ \E f \in DOMAIN rows[i] :
                        Includes(ToLowerCase(ToString(rows[i][f])), ToLowerCase(g.searchQuery))
    IN  SelectIndices([i \in 1..Len(rows) |-> IF Shown(i) THEN "true" ELSE "false"], 1, "true")

\* the component is mounted on its clients tab with one to MaxGridRows different
\* clients, no worker and no task
InitGrid ==
    /\ pc = "grid"
    /\ dataType = "none"
    /\ LET GridClients ==
               {[ClientID |-> Str(Text("C1")), ClientName |-> Str(Text("Acme")), PriorityLevel |-> Num(5),
                 RequestedTaskIDs |-> Str(Text("T1")), GroupTag |-> Str(Text("GroupA")),
                 AttributesJSON |-> Str(Text("{}"))],
                \* a name that dynamicTyping read as a number
                [ClientID |-> Str(Text("C2")), ClientName |-> Num(7), PriorityLevel |-> Str(Text("2")),
                 RequestedTaskIDs |-> Str(Text("T2")), GroupTag |-> Str(Text("GroupB")),
                 AttributesJSON |-> Str(Text("{}"))]}
       IN data \in [clients : {rows \in SeqsUpTo(GridClients, MaxGridRows) \ {<<>>} :
                                    \A i, j \in 1..Len(rows) : rows[i] = rows[j] => i = j},
                    workers : {<<>>},
                    tasks : {<<>>}]
    /\ query = <<>>
    /\ values = <<>>
    /\ input = <<>>
    /\ grid = [activeTab |-> "clients", searchQuery |-> <<>>, editingCell |-> Null,
               editValue |-> <<>>, naturalQueryForFilter |-> <<>>,
               naturalQueryForInsight |-> <<>>, aiFilteredData |-> {},
               isAiFilterActive |-> FALSE, localAiLoading |-> FALSE,
               aiInsightLoading |-> FALSE, aiInsightResponse |-> Str(<<>>),
               refs |-> [clients |-> [i \in 1..Len(data.clients) |-> i],
                         workers |-> [i \in 1..Len(data.workers) |-> Len(data.clients) + i],
                         tasks |-> <<>>]]
    /\ result = NoResult

\* onClick of an entity tab
SetActiveTab ==
    /\ pc = "grid"
    /\ Rendered(data, grid)
    /\ \E tab \in Kinds : grid' = clearAiFilter([grid EXCEPT !.activeTab = tab])
    /\ UNCHANGED <<pc, dataType, data, query, values, input, result>>

\* onChange of the search box
SetSearchQuery ==
    /\ pc = "grid"
    /\ Rendered(data, grid)
    /\ \E text \in {<<>>, Text("7")} :
           grid' = IF grid.isAiFilterActive
                   THEN clearAiFilter([grid EXCEPT !.searchQuery = text])
                   ELSE [grid EXCEPT !.searchQuery = text]
    /\ UNCHANGED <<pc, dataType, data, query, values, input, result>>

\* onChange of the filter box, which is disabled while localAiLoading
SetNaturalQueryForFilter ==
    /\ pc = "grid"
    /\ Rendered(data, grid)
    /\ ~grid.localAiLoading
    /\ \E text \in {Text("name acme")} :
           grid' = [grid EXCEPT !.naturalQueryForFilter = text]
    /\ UNCHANGED <<pc, dataType, data, query, values, input, result>>

\* handleLocalNaturalSearch, from the Apply Filter button or the Enter key of the
\* filter box, both disabled while localAiLoading.  When
\* processNaturalLanguageQuery throws, the updates made before the call stay.
HandleLocalNaturalSearch ==
    /\ pc = "grid"
    /\ Rendered(data, grid)
    /\ ~grid.localAiLoading
    /\ IF Trim(grid.naturalQueryForFilter) = <<>> THEN grid' = clearAiFilter(grid)
       ELSE LET currentData == getCurrentData(data, grid)
            IN \E results \in {processNaturalLanguageQuery(grid.naturalQueryForFilter,
                                                           currentData, grid.activeTab)} :
                   LET found == {i \in 1..Len(currentData) :
                                     \E k \in 1..Len(results.items) :
                                         results.items[k] = currentData[i]}
                   IN grid' =
                          IF results.threw
                          THEN [grid EXCEPT !.localAiLoading = TRUE, !.aiFilteredData = {},
                                            !.isAiFilterActive = FALSE]
                          ELSE [grid EXCEPT
                                   !.aiFilteredData =
                                       {grid.refs[grid.activeTab][i] : i \in found},
                                   !.isAiFilterActive = TRUE,
                                   !.localAiLoading = FALSE,
                                   !.aiInsightResponse =
                                       Str(Text("Local filter applied: Found ")
                                               \o DigitsOf(Len(results.items))
                                               \o Text(" matches."))]
    /\ UNCHANGED <<pc, dataType, data, query, values, input, result>>

\* the Clear Filter button, rendered while the filter is active
ClearAiFilter ==
    /\ pc = "grid"
    /\ Rendered(data, grid)
    /\ grid.isAiFilterActive
    /\ grid' = clearAiFilter(grid)
    /\ UNCHANGED <<pc, dataType, data, query, values, input, result>>

\* onChange of the insight box, which is disabled while aiInsightLoading
SetNaturalQueryForInsight ==
    /\ pc = "grid"
    /\ Rendered(data, grid)
    /\ ~grid.aiInsightLoading
    /\ \E text \in {Text(" "), Text("why")} : grid' = [grid EXCEPT !.naturalQueryForInsight = text]
    /\ UNCHANGED <<pc, dataType, data, query, values, input, result>>

\* handleAIInsightRequest up to its await, from the Get AI Insight button or the
\* Enter key of the insight box, both disabled while aiInsightLoading
HandleAIInsightRequest ==
    /\ pc = "grid"
    /\ Rendered(data, grid)
    /\ ~grid.aiInsightLoading
    /\ grid' = IF Trim(grid.naturalQueryForInsight) = <<>>
               THEN [grid EXCEPT !.aiInsightResponse =
                                     Str(Text("Please enter a query for AI insights."))]
               ELSE [grid EXCEPT !.aiInsightLoading = TRUE,
                                 !.aiInsightResponse = Str(Text("Getting AI insights..."))]
    /\ UNCHANGED <<pc, dataType, data, query, values, input, result>>

\* handleAIInsightRequest after its await: the promise of callOpenAI is fulfilled
\* (callOpenAI catches what its try block throws, so the catch block of the
\* handler is not entered), whatever was done to the grid in between
AIInsightSettled ==
    /\ pc = "grid"
    /\ grid.aiInsightLoading
    /\ LET Response(json) ==
               [rejected |-> FALSE, message |-> <<>>, status |-> 200,
                body |-> [parsable |-> TRUE, message |-> <<>>, json |-> json]]
           Outcomes ==
               {[rejected |-> TRUE, message |-> Text("Failed to fetch"), status |-> 0, body |-> Null],
                Response([response |-> Str(Text("ok")), details |-> Undefined, error |-> Undefined]),
                Response([response |-> Num(5), details |-> Undefined, error |-> Undefined])}
       IN \E fetch \in Outcomes :
              LET response == callOpenAI(fetch)
              IN grid' = [grid EXCEPT
                             !.aiInsightResponse =
                                 [t |-> response.t, s |-> response.text, n |-> response.n],
                             !.aiInsightLoading = FALSE]
    /\ UNCHANGED <<pc, dataType, data, query, values, input, result>>

\* handleCellEdit, from the click on the text of a cell (not rendered for the cell
\* being edited) or from the Edit button of a row, which edits the first column.
\* rowIndex is the index of the row in displayedData.map.  The cells clicked are
\* those of the first column, a text, and of the third, which is the number
\* PriorityLevel of a client.
HandleCellEdit ==
    /\ pc = "grid"
    /\ Rendered(data, grid)
    /\ LET shown == displayedData(data, grid)
           columns == getColumns(grid.activeTab)
       IN \E rowIndex \in 0..(Len(shown) - 1) :
          \E c \in {1, 3} \cap 1..Len(columns) :
              LET column == columns[c]
                  row == getCurrentData(data, grid)[shown[rowIndex + 1]]
                  currentValue == IF column \in DOMAIN row THEN row[column] ELSE Undefined
                  editing == /\ grid.editingCell # Null
                             /\ grid.editingCell.row = rowIndex
                             /\ grid.editingCell.column = column
              IN /\ c = 1 \/ ~editing
                 /\ grid' = [grid EXCEPT
                                !.editingCell = [row |-> rowIndex, column |-> column],
                                !.editValue = IF Truthy(currentValue)
                                              THEN ToString(currentValue) ELSE <<>>]
    /\ UNCHANGED <<pc, dataType, data, query, values, input, result>>

\* whether the table renders the input of the cell being edited: the cell is in
\* a row and a column of the table
EditorShown ==
    /\ Rendered(data, grid)
    /\ grid.editingCell # Null
    /\ grid.editingCell.row < Len(displayedData(data, grid))
    /\ \E c \in 1..Len(getColumns(grid.activeTab)) :
           getColumns(grid.activeTab)[c] = grid.editingCell.column

\* onChange of the input of the cell being edited
SetEditValue ==
    /\ pc = "grid"
    /\ EditorShown
    /\ \E text \in {Text("7x")} : grid' = [grid EXCEPT !.editValue = text]
    /\ UNCHANGED <<pc, dataType, data, query, values, input, result>>

\* handleSaveEdit, from the Save button or the Enter key of the input, and
\* onDataUpdate of the parent: the record at index editingCell.row of the
\* current data is replaced by a new object
HandleSaveEdit ==
    /\ pc = "grid"
    /\ EditorShown
    /\ LET currentData == getCurrentData(data, grid)
           row == grid.editingCell.row
           column == grid.editingCell.column
           parsed == ParseIntString(grid.editValue)
           newValue ==
               IF column \in {"PriorityLevel", "Duration", "MaxLoadPerPhase",
                              "QualificationLevel", "MaxConcurrent"}
               THEN Num(IF parsed.nan THEN 0 ELSE parsed.n)
               ELSE Str(grid.editValue)
           \* { ...currentData[row], [column]: newValue }
           updated == [f \in DOMAIN currentData[row + 1] \cup {column} |->
                           IF f = column THEN newValue ELSE currentData[row + 1][f]]
           held == grid.aiFilteredData \cup
                       UNION {{grid.refs[tab][i] : i \in 1..Len(grid.refs[tab])} : tab \in Kinds}
           created == CHOOSE n \in 1..(Cardinality(held) + 1) :
                          n \notin held /\ \A m \in 1..(n - 1) : m \in held
       IN /\ data' = [data EXCEPT ![grid.activeTab] =
                                      [currentData EXCEPT ![row + 1] = updated]]
          /\ grid' = [grid EXCEPT !.refs[grid.activeTab][row + 1] = created,
                                  !.editingCell = Null,
                                  !.editValue = <<>>]
    /\ UNCHANGED <<pc, dataType, query, values, input, result>>

\* handleCancelEdit
HandleCancelEdit ==
    /\ pc = "grid"
    /\ EditorShown
    /\ grid' = [grid EXCEPT !.editingCell = Null, !.editValue = <<>>]
    /\ UNCHANGED <<pc, dataType, data, query, values, input, result>>

\* the handlers of the tabs, the search box and the filter
NextFilter ==
    \/ SetActiveTab
    \/ SetSearchQuery
    \/ SetNaturalQueryForFilter
    \/ HandleLocalNaturalSearch
    \/ ClearAiFilter

\* the grid of a user who leaves the insight box alone
NextGrid ==
    \/ NextFilter
    \/ HandleCellEdit
    \/ SetEditValue
    \/ HandleSaveEdit
    \/ HandleCancelEdit

SpecGrid == InitGrid /\ [][NextGrid]_vars

\* the grid of a user who edits no cell
NextInsight ==
    \/ NextFilter
    \/ SetNaturalQueryForInsight
    \/ HandleAIInsightRequest
    \/ AIInsightSettled

SpecInsight == InitGrid /\ [][NextInsight]_vars

----------------------------------------------------------------------------
(* Properties of the data grid *)

\* C29: after any sequence of search, filter and edit actions, saving a cell
\* edit changes the edited field of exactly the record shown at the edited row
\* of the table and leaves every other record unchanged, also while a search
\* text or the filter hides records.
SaveChangesTheShownRecord ==
    [][data' # data =>
          LET rows == getCurrentData(data, grid)
              saved == getCurrentData(data', grid)
              shown == displayedData(data, grid)[grid.editingCell.row + 1]
              column == grid.editingCell.column
          IN /\ \A tab \in Kinds \ {grid.activeTab} : data'[tab] = data[tab]
             /\ Len(saved) = Len(rows)
             /\ \A i \in 1..Len(rows) : i # shown => saved[i] = rows[i]
             /\ saved[shown] = [rows[shown] EXCEPT ![column] = saved[shown][column]]]_vars

====
